---- MODULE Spec2Model ----
(***************************************************************************)
(* Row decoding, value resolution and multi-language JSON merge of the     *)
(* sheet translation tool (SheetsParser, JSONBuilder,                      *)
(* MultiLanguageJSONHandler), its TranslationService and SheetsWriter, and *)
(* the workflow of MedicalTranslationApp with its progress steps.          *)
(*                                                                         *)
(* JavaScript data is modelled as follows.                                 *)
(*  - A string is a sequence of atoms (TLA+ strings); the empty string is  *)
(*    <<>>.  A JSON text is a string whose atoms are its lexical pieces:   *)
(*    "{" "}" "[" "]" ":" "," the quote "\"", white space " ", literals    *)
(*    and plain character runs.                                            *)
(*  - A value is a tagged record: S(string), N(literal), B(bool), Null,    *)
(*    Undefined, Arr(sequence) or Ref(i), a reference to the object stored *)
(*    at heap[i].                                                          *)
(*  - An object is the sequence of its [k, v] members in insertion order.  *)
(***************************************************************************)
EXTENDS Integers, Sequences, FiniteSets, TLC

----------------------------------------------------------------------------
(* JavaScript values *)

S(x) == [t |-> "str", s |-> x]
N(x) == [t |-> "num", n |-> x]
B(x) == [t |-> "bool", b |-> x]
Null == [t |-> "null"]
Undefined == [t |-> "undefined"]
Arr(x) == [t |-> "arr", a |-> x]
Ref(i) == [t |-> "ref", r |-> i]
Tree(x) == [t |-> "obj", o |-> x]

\* a one-atom string
Str(x) == <<x>>
EmptyStr == S(<<>>)

\* ToBoolean: what `!x`, `x || y` and `if (x)` test
Truthy(x) ==
    CASE x.t = "str" -> x.s # <<>>
      [] x.t = "num" -> x.n # "0"
      [] x.t = "bool" -> x.b
      [] x.t \in {"null", "undefined"} -> FALSE
      [] OTHER -> TRUE

\* a || b
Or(a, b) == IF Truthy(a) THEN a ELSE b

\* typeof x === 'object'
TypeofObject(x) == x.t \in {"ref", "arr", "null"}

----------------------------------------------------------------------------
(* Objects: members in insertion order *)

RECURSIVE IndexOf(_, _, _)
IndexOf(o, k, i) ==
    IF i > Len(o) THEN 0
    ELSE IF o[i].k = k THEN i
    ELSE IndexOf(o, k, i + 1)

Has(o, k) == IndexOf(o, k, 1) # 0

\* o[k]
Get(o, k) == IF Has(o, k) THEN o[IndexOf(o, k, 1)].v ELSE Undefined

\* o[k] = v: an existing key keeps its position, a new key goes last
Put(o, k, v) ==
    IF Has(o, k)
    THEN [o EXCEPT ![IndexOf(o, k, 1)] = [k |-> k, v |-> v]]
    ELSE Append(o, [k |-> k, v |-> v])

\* Object.keys(o)
Keys(o) == [i \in 1..Len(o) |-> o[i].k]
KeySet(o) == {o[i].k : i \in 1..Len(o)}

\* { ...a, ...b }
RECURSIVE Spread(_, _)
Spread(a, b) ==
    IF b = <<>> THEN a
    ELSE Spread(Put(a, Head(b).k, Head(b).v), Tail(b))

----------------------------------------------------------------------------
(* JSON.parse over the atoms of a text *)

WS == " "
QUOTE == "\""
NumLits == {"0", "1", "2", "3", "42"}

RECURSIVE SkipWs(_, _)
SkipWs(t, i) ==
    IF i <= Len(t) /\ t[i] = WS THEN SkipWs(t, i + 1) ELSE i

\* String.prototype.trim: drop the leading and the trailing white space
RECURSIVE TrimRight(_)
TrimRight(t) ==
    IF t # <<>> /\ t[Len(t)] = WS THEN TrimRight(SubSeq(t, 1, Len(t) - 1)) ELSE t

Trim(t) == TrimRight(SubSeq(t, SkipWs(t, 1), Len(t)))

RECURSIVE ClosingQuote(_, _)
ClosingQuote(t, i) ==
    IF i > Len(t) THEN 0
    ELSE IF t[i] = QUOTE THEN i
    ELSE ClosingQuote(t, i + 1)

Fail == [ok |-> FALSE]
Okay(tree, next) == [ok |-> TRUE, tree |-> tree, next |-> next]

RECURSIVE ParseValue(_, _)
RECURSIVE ParseMembers(_, _, _)
RECURSIVE ParseElements(_, _, _)

\* value at t[i]; next is the index after it
ParseValue(t, i) ==
    IF i > Len(t) THEN Fail
    ELSE IF t[i] = "{" THEN
        LET j == SkipWs(t, i + 1) IN
        IF j <= Len(t) /\ t[j] = "}" THEN Okay(Tree(<<>>), j + 1)
        ELSE ParseMembers(t, j, <<>>)
    ELSE IF t[i] = "[" THEN
        LET j == SkipWs(t, i + 1) IN
        IF j <= Len(t) /\ t[j] = "]" THEN Okay(Arr(<<>>), j + 1)
        ELSE ParseElements(t, j, <<>>)
    ELSE IF t[i] = QUOTE THEN
        LET j == ClosingQuote(t, i + 1) IN
        IF j = 0 THEN Fail ELSE Okay(S(SubSeq(t, i + 1, j - 1)), j + 1)
    ELSE IF t[i] \in NumLits THEN Okay(N(t[i]), i + 1)
    ELSE IF t[i] = "true" THEN Okay(B(TRUE), i + 1)
    ELSE IF t[i] = "false" THEN Okay(B(FALSE), i + 1)
    ELSE IF t[i] = "null" THEN Okay(Null, i + 1)
    ELSE Fail

\* members of an object from t[i] on: "key" : value { , "key" : value } }
ParseMembers(t, i, acc) ==
    IF i > Len(t) \/ t[i] # QUOTE THEN Fail
    ELSE
        LET j == ClosingQuote(t, i + 1) IN
        IF j = 0 THEN Fail
        ELSE
            LET key == SubSeq(t, i + 1, j - 1)
                c == SkipWs(t, j + 1)
            IN
            IF c > Len(t) \/ t[c] # ":" THEN Fail
            ELSE
                LET r == ParseValue(t, SkipWs(t, c + 1)) IN
                IF ~r.ok THEN Fail
                ELSE
                    LET e == SkipWs(t, r.next)
                        acc2 == Put(acc, key, r.tree)
                    IN
                    IF e > Len(t) THEN Fail
                    ELSE IF t[e] = "}" THEN Okay(Tree(acc2), e + 1)
                    ELSE IF t[e] = "," THEN ParseMembers(t, SkipWs(t, e + 1), acc2)
                    ELSE Fail

\* elements of an array from t[i] on: value { , value } ]
ParseElements(t, i, acc) ==
    LET r == ParseValue(t, i) IN
    IF ~r.ok THEN Fail
    ELSE
        LET e == SkipWs(t, r.next) IN
        IF e > Len(t) THEN Fail
        ELSE IF t[e] = "]" THEN Okay(Arr(Append(acc, r.tree)), e + 1)
        ELSE IF t[e] = "," THEN ParseElements(t, SkipWs(t, e + 1), Append(acc, r.tree))
        ELSE Fail

\* JSON.parse(t): [ok |-> FALSE] stands for the SyntaxError it throws
JSONParse(t) ==
    LET r == ParseValue(t, SkipWs(t, 1)) IN
    IF r.ok /\ SkipWs(t, r.next) > Len(t) THEN [ok |-> TRUE, tree |-> r.tree]
    ELSE Fail

----------------------------------------------------------------------------
(* The heap: JSON.parse and object literals allocate, references share *)

RECURSIVE Alloc(_, _)
RECURSIVE AllocMembers(_, _, _, _)

\* store the value tr in heap h; nested objects get cells of their own
Alloc(h, tr) ==
    IF tr.t # "obj" THEN [h |-> h, v |-> tr]
    ELSE
        LET r == AllocMembers(h, tr.o, 1, <<>>) IN
        [h |-> Append(r.h, r.o), v |-> Ref(Len(r.h) + 1)]

AllocMembers(h, ms, i, acc) ==
    IF i > Len(ms) THEN [h |-> h, o |-> acc]
    ELSE
        LET a == Alloc(h, ms[i].v) IN
        AllocMembers(a.h, ms, i + 1, Append(acc, [k |-> ms[i].k, v |-> a.v]))

\* the value of v in heap h, references followed (what JSON.stringify sees)
RECURSIVE Deep(_, _)
Deep(h, v) ==
    IF v.t # "ref" THEN v
    ELSE Tree([j \in 1..Len(h[v.r]) |->
                 [k |-> h[v.r][j].k, v |-> Deep(h, h[v.r][j].v)]])

----------------------------------------------------------------------------
(* validators.js: sanitizeInput *)

\* the string a value becomes when it is assigned to textContent
TextContent(v) ==
    CASE v.t = "str" -> v.s
      [] v.t = "num" -> <<v.n>>
      [] v.t = "bool" -> IF v.b THEN <<"true">> ELSE <<"false">>
      [] v.t = "null" -> <<>>
      [] v.t = "undefined" -> <<"undefined">>
      [] OTHER -> <<"[object Object]">>

\* innerHTML of a text node: & < > are written as entities
EscapeAtom(a) ==
    CASE a = "&" -> "&amp;"
      [] a = "<" -> "&lt;"
      [] a = ">" -> "&gt;"
      [] OTHER -> a

sanitizeInput(input) ==
    LET text == TextContent(input)
    IN S([i \in 1..Len(text) |-> EscapeAtom(text[i])])

----------------------------------------------------------------------------
(* APP_CONFIG *)

\* MULTI_LANGUAGE_JSON.LANGUAGE_CODES
LANGUAGE_CODES == <<S(Str("en")), S(Str("ja")), S(Str("th"))>>

\* PERFORMANCE.JSON_CACHE.MAX_SIZE, scaled down from the configured 100
MAX_SIZE == 2

----------------------------------------------------------------------------
(* MultiLanguageJSONHandler *)

\* what a call hands back: the heap and the cache after it, and either the
\* returned value or the fact that it threw
Return(h, c, v) == [heap |-> h, cache |-> c, thrown |-> FALSE, ret |-> v]
Throw(h, c) == [heap |-> h, cache |-> c, thrown |-> TRUE, ret |-> Undefined]

\* the expression {}: a fresh empty object
NewObject(h, o) == [h |-> Append(h, o), v |-> Ref(Len(h) + 1)]
ReturnEmpty(h, c) == Return(Append(h, <<>>), c, Ref(Len(h) + 1))

\* the own enumerable members { ...v } copies
IndexKeys == <<"0", "1", "2", "3", "4", "5", "6", "7">>
OwnMembers(h, v) ==
    CASE v.t = "ref" -> h[v.r]
      [] v.t = "str" -> [i \in 1..Len(v.s) |-> [k |-> Str(IndexKeys[i]), v |-> S(<<v.s[i]>>)]]
      [] v.t = "arr" -> [i \in 1..Len(v.a) |-> [k |-> Str(IndexKeys[i]), v |-> v.a[i]]]
      [] OTHER -> <<>>

\* v[k] for a value that is not null or undefined
GetProp(h, v, k) == IF v.t = "ref" THEN Get(h[v.r], k) ELSE Undefined

isValidLanguage(language) ==
    \E i \in 1..Len(LANGUAGE_CODES) : LANGUAGE_CODES[i] = language

\* _addToCache that evicts only when the cache is already over its limit
AddToCache_offByOne(c, key, value) ==
    LET kept == IF Len(c) > MAX_SIZE THEN Tail(c) ELSE c
    IN Put(kept, key, value)

\* _addToCache: the cache is a Map, its entries kept in insertion order
AddToCache(c, key, value) ==
    LET kept == IF Len(c) >= MAX_SIZE THEN Tail(c) ELSE c
    IN Put(kept, key, value)

\* parse without the check that the parsed value is a non-array object
parse_noTypeCheck(h, c, enabled, jsonString) ==
    IF ~Truthy(jsonString) THEN ReturnEmpty(h, c)
    ELSE IF jsonString.t # "str" THEN Throw(h, c)
    ELSE IF Trim(jsonString.s) = <<>> THEN ReturnEmpty(h, c)
    ELSE IF enabled /\ Has(c, jsonString.s) THEN Return(h, c, Get(c, jsonString.s))
    ELSE
        LET p == JSONParse(jsonString.s) IN
        IF ~p.ok THEN ReturnEmpty(h, c)
        ELSE
            LET a == Alloc(h, p.tree) IN
            Return(a.h, IF enabled THEN AddToCache(c, jsonString.s, a.v) ELSE c, a.v)

\* parse that caches the parsed value before it checks that it is an object
parse_cacheBeforeCheck(h, c, enabled, jsonString) ==
    IF ~Truthy(jsonString) THEN ReturnEmpty(h, c)
    ELSE IF jsonString.t # "str" THEN Throw(h, c)
    ELSE IF Trim(jsonString.s) = <<>> THEN ReturnEmpty(h, c)
    ELSE IF enabled /\ Has(c, jsonString.s) THEN Return(h, c, Get(c, jsonString.s))
    ELSE
        LET p == JSONParse(jsonString.s) IN
        IF ~p.ok THEN ReturnEmpty(h, c)
        ELSE
            LET a == Alloc(h, p.tree)
                c2 == IF enabled THEN AddToCache(c, jsonString.s, a.v) ELSE c
            IN
            IF p.tree.t # "obj" THEN ReturnEmpty(a.h, c2)
            ELSE Return(a.h, c2, a.v)

parse(h, c, enabled, jsonString) ==
    IF ~Truthy(jsonString) THEN ReturnEmpty(h, c)
    ELSE IF jsonString.t # "str" THEN Throw(h, c)     \* .trim is not a function
    ELSE IF Trim(jsonString.s) = <<>> THEN ReturnEmpty(h, c)
    ELSE IF enabled /\ Has(c, jsonString.s) THEN Return(h, c, Get(c, jsonString.s))
    ELSE
        LET p == JSONParse(jsonString.s) IN
        IF ~p.ok THEN ReturnEmpty(h, c)
        ELSE IF p.tree.t # "obj" THEN ReturnEmpty(h, c)
        ELSE
            LET a == Alloc(h, p.tree) IN
            Return(a.h, IF enabled THEN AddToCache(c, jsonString.s, a.v) ELSE c, a.v)

\* merge that returns only the merged language
merge_dropOthers(h, c, existingJSON, language, newData) ==
    IF ~isValidLanguage(language) THEN Return(Append(h, <<>>), c, Ref(Len(h) + 1))
    ELSE
        LET h1 == Append(h, OwnMembers(h, newData))
            h2 == Append(h1, <<[k |-> language.s, v |-> Ref(Len(h1))]>>)
        IN Return(h2, c, Ref(Len(h2)))

\* merge that writes the entry into existing instead of into a copy
merge_inPlace(h, c, existingJSON, language, newData) ==
    IF ~(Truthy(existingJSON) /\ existingJSON.t = "ref")
    THEN Return(Append(h, <<>>), c, Ref(Len(h) + 1))
    ELSE IF ~isValidLanguage(language) THEN Return(h, c, existingJSON)
    ELSE
        LET base == h[existingJSON.r]
            old == Get(base, language.s)
            entry == Spread(IF Truthy(old) THEN OwnMembers(h, old) ELSE <<>>,
                            OwnMembers(h, newData))
            h1 == Append(h, entry)
        IN Return([h1 EXCEPT ![existingJSON.r] = Put(base, language.s, Ref(Len(h1)))],
                  c, existingJSON)

\* merge without the language check
merge_noValidation(h, c, existingJSON, language, newData) ==
    LET base == IF Truthy(existingJSON) /\ TypeofObject(existingJSON)
                THEN OwnMembers(h, existingJSON) ELSE <<>>
        key == TextContent(language)
        old == Get(base, key)
        entry == Spread(IF Truthy(old) THEN OwnMembers(h, old) ELSE <<>>,
                        OwnMembers(h, newData))
        h1 == Append(h, entry)
        h2 == Append(h1, Put(base, key, Ref(Len(h1))))
    IN Return(h2, c, Ref(Len(h2)))

\* merge that replaces existing[language] by the payload
merge_replaceEntry(h, c, existingJSON, language, newData) ==
    LET base == IF Truthy(existingJSON) /\ TypeofObject(existingJSON)
                THEN OwnMembers(h, existingJSON) ELSE <<>>
    IN
    IF ~isValidLanguage(language) THEN Return(Append(h, base), c, Ref(Len(h) + 1))
    ELSE
        LET h1 == Append(h, OwnMembers(h, newData))
            h2 == Append(h1, Put(base, language.s, Ref(Len(h1))))
        IN Return(h2, c, Ref(Len(h2)))

merge(h, c, existingJSON, language, newData) ==
    LET base == IF Truthy(existingJSON) /\ TypeofObject(existingJSON)
                THEN OwnMembers(h, existingJSON) ELSE <<>>
    IN
    IF ~isValidLanguage(language) THEN Return(Append(h, base), c, Ref(Len(h) + 1))
    ELSE
        LET old == Get(base, language.s)
            entry == Spread(IF Truthy(old) THEN OwnMembers(h, old) ELSE <<>>,
                            OwnMembers(h, newData))
            h1 == Append(h, entry)
            h2 == Append(h1, Put(base, language.s, Ref(Len(h1))))
        IN Return(h2, c, Ref(Len(h2)))

\* getAvailableLanguages without the filter: every key is reported
getAvailableLanguages_allKeys(h, json) ==
    IF ~Truthy(json) \/ ~TypeofObject(json) THEN Arr(<<>>)
    ELSE Arr([i \in 1..Len(OwnMembers(h, json)) |-> S(OwnMembers(h, json)[i].k)])

\* the keys among members, in order, that isValidLanguage accepts
RECURSIVE FilterValid(_, _)
FilterValid(members, i) ==
    IF i > Len(members) THEN <<>>
    ELSE IF isValidLanguage(S(members[i].k))
    THEN <<S(members[i].k)>> \o FilterValid(members, i + 1)
    ELSE FilterValid(members, i + 1)

\* MultiLanguageJSONHandler.getAvailableLanguages
getAvailableLanguages(h, json) ==
    IF ~Truthy(json) \/ ~TypeofObject(json) THEN Arr(<<>>)
    ELSE Arr(FilterValid(OwnMembers(h, json), 1))

extractLanguage(h, json, language) ==
    IF ~Truthy(json) \/ ~isValidLanguage(language) THEN Null
    ELSE Or(GetProp(h, json, language.s), Null)

ContentField(dataType) == IF dataType = "doctor" THEN "history" ELSE "description"

extractOldJSONValues(h, json, language, dataType) ==
    LET langData == extractLanguage(h, json, language) IN
    IF ~Truthy(langData) THEN NewObject(h, <<>>)
    ELSE NewObject(h, <<[k |-> Str("name"),
                         v |-> Or(GetProp(h, langData, Str("name")), EmptyStr)],
                        [k |-> Str(ContentField(dataType)),
                         v |-> Or(GetProp(h, langData, Str(ContentField(dataType))), EmptyStr)]>>)

\* JSON_OUTPUT.INDENT
INDENT == 2

NL == "\n"

RECURSIVE Spaces(_)
Spaces(n) == IF n = 0 THEN <<>> ELSE <<WS>> \o Spaces(n - 1)

\* the characters of a string as JSON.stringify writes them between quotes
EscapeJSON(a) ==
    IF a = QUOTE THEN "\\\"" ELSE IF a = "\\" THEN "\\\\" ELSE a

\* JSON.stringify(v, null, INDENT) of a value written out as a tree, at a
\* nesting depth: members in insertion order, undefined members left out,
\* and {} and [] for the empty object and array
RECURSIVE JSONStringify(_, _)
RECURSIVE StringifyMembers(_, _, _)
RECURSIVE StringifyElements(_, _, _)
JSONStringify(v, depth) ==
    CASE v.t = "str" -> <<QUOTE>> \o [i \in 1..Len(v.s) |-> EscapeJSON(v.s[i])] \o <<QUOTE>>
      [] v.t = "num" -> <<v.n>>
      [] v.t = "bool" -> <<IF v.b THEN "true" ELSE "false">>
      [] v.t = "obj" ->
            LET ms == SelectSeq(v.o, LAMBDA m : m.v.t # "undefined") IN
            IF ms = <<>> THEN <<"{", "}">>
            ELSE <<"{", NL>> \o StringifyMembers(ms, 1, depth + 1)
                 \o <<NL>> \o Spaces(INDENT * depth) \o <<"}">>
      [] v.t = "arr" ->
            IF v.a = <<>> THEN <<"[", "]">>
            ELSE <<"[", NL>> \o StringifyElements(v.a, 1, depth + 1)
                 \o <<NL>> \o Spaces(INDENT * depth) \o <<"]">>
      [] OTHER -> <<"null">>

StringifyMembers(ms, i, depth) ==
    Spaces(INDENT * depth) \o <<QUOTE>>
        \o [j \in 1..Len(ms[i].k) |-> EscapeJSON(ms[i].k[j])] \o <<QUOTE, ":", WS>>
        \o JSONStringify(ms[i].v, depth)
        \o (IF i = Len(ms) THEN <<>> ELSE <<",", NL>> \o StringifyMembers(ms, i + 1, depth))

StringifyElements(es, i, depth) ==
    Spaces(INDENT * depth) \o JSONStringify(es[i], depth)
        \o (IF i = Len(es) THEN <<>> ELSE <<",", NL>> \o StringifyElements(es, i + 1, depth))

\* MultiLanguageJSONHandler.stringify: JSON.stringify(undefined) is undefined
stringify(h, json) ==
    IF json.t = "undefined" THEN Undefined ELSE S(JSONStringify(Deep(h, json), 0))

----------------------------------------------------------------------------
(* SheetsParser *)

\* SHEET_COLUMNS: the 0-based column of each field (same for both data types)
COL_id == 0
COL_kr_name == 1
COL_kr_content == 2
COL_language == 3
COL_old_name == 4
COL_old_content == 5
COL_old_json == 6
COL_manual_name == 7
COL_manual_content == 8
COL_llm_name == 9
COL_llm_content == 10
COL_updated_json == 11

\* getValue that takes the last cell of the row for a missing one
getValue_lastCellLost(row, index) == IF index + 1 < Len(row) THEN row[index + 1] ELSE EmptyStr

\* getValue inside parseRow
getValue(row, index) == IF index < Len(row) THEN row[index + 1] ELSE EmptyStr

hasManualOverride(row, dataType) ==
    IF dataType = "doctor"
    THEN Truthy(Or(row.manual_name, row.manual_history))
    ELSE Truthy(Or(row.manual_name, row.manual_description))

hasLLMTranslation(row, dataType) ==
    IF dataType = "doctor"
    THEN Truthy(Or(row.llm_name, row.llm_history))
    ELSE Truthy(Or(row.llm_name, row.llm_description))

hasOldValues(row, dataType) ==
    IF dataType = "doctor"
    THEN Truthy(Or(row.old_name, row.old_history))
    ELSE Truthy(Or(row.old_name, row.old_description))

hasContentChanged(row, dataType) ==
    IF dataType = "doctor"
    THEN row.kr_name # row.old_name \/ row.kr_history # row.old_history
    ELSE row.kr_name # row.old_name \/ row.kr_description # row.old_description

needsTranslation_ignoreOld(row, dataType) == ~hasLLMTranslation(row, dataType)

needsTranslation(row, dataType) ==
    LET hasNoLLM == ~hasLLMTranslation(row, dataType)
        contentChanged == hasOldValues(row, dataType) /\ hasContentChanged(row, dataType)
    IN hasNoLLM \/ contentChanged

\* parseOldJSON: the handler is always loaded, so this is its parse
parseOldJSON(h, c, enabled, jsonString) == parse(h, c, enabled, jsonString)

\* the fields parseRow reads from the cells, before old_json is parsed
BaseFields(row, dataType, expectedLanguage) ==
    LET language == Or(getValue(row, COL_language), expectedLanguage)
        common == [id |-> getValue(row, COL_id),
                   kr_name |-> sanitizeInput(Or(getValue(row, COL_kr_name), EmptyStr)),
                   rowIndex |-> IF Len(row) > 0 THEN row[1] ELSE Null,
                   language |-> language,
                   languageMismatch |-> IF Truthy(language)
                                        THEN B(language # expectedLanguage)
                                        ELSE language,
                   old_name |-> sanitizeInput(Or(getValue(row, COL_old_name), EmptyStr)),
                   manual_name |-> sanitizeInput(Or(getValue(row, COL_manual_name), EmptyStr)),
                   llm_name |-> sanitizeInput(Or(getValue(row, COL_llm_name), EmptyStr)),
                   old_json |-> Or(getValue(row, COL_old_json), EmptyStr),
                   updated_json |-> Or(getValue(row, COL_updated_json), EmptyStr)]
        kr == sanitizeInput(Or(getValue(row, COL_kr_content), EmptyStr))
        old == sanitizeInput(Or(getValue(row, COL_old_content), EmptyStr))
        manual == sanitizeInput(Or(getValue(row, COL_manual_content), EmptyStr))
        llm == sanitizeInput(Or(getValue(row, COL_llm_content), EmptyStr))
    IN
    IF dataType = "doctor"
    THEN common @@ [kr_history |-> kr, old_history |-> old,
                    manual_history |-> manual, llm_history |-> llm]
    ELSE common @@ [kr_description |-> kr, old_description |-> old,
                    manual_description |-> manual, llm_description |-> llm]

\* the flags parseRow computes last, on the row decoded so far
RowFlags(parsedRow, dataType) ==
    [hasManualOverride |-> hasManualOverride(parsedRow, dataType),
     hasLLMTranslation |-> hasLLMTranslation(parsedRow, dataType),
     hasOldValues |-> hasOldValues(parsedRow, dataType),
     contentChanged |-> hasContentChanged(parsedRow, dataType),
     needsTranslation |-> needsTranslation(parsedRow, dataType)]

\* parseRow from the parsed old_json on: base holds the fields read from the
\* cells, p is what parseOldJSON returned or raised
ParsedRow(base, p, dataType) ==
    IF p.thrown THEN [heap |-> p.heap, cache |-> p.cache, thrown |-> TRUE]
    ELSE
        LET vals == IF Truthy(p.ret) /\ Truthy(base.language)
                    THEN extractOldJSONValues(p.heap, p.ret, base.language, dataType)
                    ELSE NewObject(p.heap, <<>>)
            withJSON == base @@ [old_json_parsed |-> p.ret, old_json_values |-> vals.v]
        IN [heap |-> vals.h, cache |-> p.cache, thrown |-> FALSE,
            row |-> withJSON @@ RowFlags(withJSON, dataType)]

\* parseRow: the decoded row, or the exception parse raised
parseRow(h, c, enabled, row, dataType, expectedLanguage) ==
    LET base == BaseFields(row, dataType, expectedLanguage)
    IN ParsedRow(base, parseOldJSON(h, c, enabled, base.old_json), dataType)

\* the counters parseRows keeps
ZeroStatistics(total) ==
    [totalRows |-> total, validRows |-> 0, rowsNeedingTranslation |-> 0,
     rowsWithManualOverride |-> 0, rowsWithLLMTranslation |-> 0, rowsWithJSON |-> 0,
     rowsWithOldValues |-> 0, rowsWithValidOldJSON |-> 0, rowsWithContentChanges |-> 0,
     languageMismatches |-> 0]

Count(b) == IF b THEN 1 ELSE 0

UpdateStatistics(st, h, r) ==
    [st EXCEPT
        !.validRows = @ + 1,
        !.rowsNeedingTranslation = @ + Count(r.needsTranslation),
        !.rowsWithManualOverride = @ + Count(r.hasManualOverride),
        !.rowsWithLLMTranslation = @ + Count(r.hasLLMTranslation),
        !.rowsWithJSON = @ + Count(Truthy(r.updated_json)),
        !.rowsWithOldValues = @ + Count(r.hasOldValues),
        !.rowsWithValidOldJSON = @ + Count(Truthy(r.old_json_parsed)
                                           /\ Len(OwnMembers(h, r.old_json_parsed)) > 0),
        !.rowsWithContentChanges = @ + Count(r.contentChanged),
        !.languageMismatches = @ + Count(Truthy(r.languageMismatch))]

RowOutcome_rowOffByOne(acc, p, row, index) ==
    LET failed(message) == [row |-> index + 1, error |-> message, data |-> row]
    IN
    IF p.thrown
    THEN [acc EXCEPT !.heap = p.heap, !.cache = p.cache,
                     !.errors = Append(@, failed("jsonString.trim is not a function"))]
    ELSE IF ~Truthy(p.row.id) \/ ~Truthy(p.row.kr_name)
    THEN [acc EXCEPT !.heap = p.heap, !.cache = p.cache,
                     !.errors = Append(@, failed("Missing required fields: id or kr_name"))]
    ELSE [acc EXCEPT !.heap = p.heap, !.cache = p.cache,
                     !.data = Append(@, p.row),
                     !.statistics = UpdateStatistics(@, p.heap, p.row)]

\* the body of the forEach of parseRows, for the row at 0-based position index:
\* p is what parseRow returned or raised; acc carries the heap, the cache, data,
\* errors and statistics
RowOutcome(acc, p, row, index) ==
    LET failed(message) == [row |-> index + 2, error |-> message, data |-> row]
    IN
    IF p.thrown
    THEN [acc EXCEPT !.heap = p.heap, !.cache = p.cache,
                     !.errors = Append(@, failed("jsonString.trim is not a function"))]
    ELSE IF ~Truthy(p.row.id) \/ ~Truthy(p.row.kr_name)
    THEN [acc EXCEPT !.heap = p.heap, !.cache = p.cache,
                     !.errors = Append(@, failed("Missing required fields: id or kr_name"))]
    ELSE [acc EXCEPT !.heap = p.heap, !.cache = p.cache,
                     !.data = Append(@, p.row),
                     !.statistics = UpdateStatistics(@, p.heap, p.row)]

ParseRowsStep(acc, enabled, row, index, dataType, language) ==
    RowOutcome(acc, parseRow(acc.heap, acc.cache, enabled, row, dataType, language),
               row, index)

RECURSIVE ParseRowsFrom_stopAtError(_, _, _, _, _, _)
ParseRowsFrom_stopAtError(acc, enabled, rows, i, dataType, language) ==
    IF i > Len(rows) \/ acc.errors # <<>> THEN acc
    ELSE ParseRowsFrom_stopAtError(
             ParseRowsStep(acc, enabled, rows[i], i - 1, dataType, language),
             enabled, rows, i + 1, dataType, language)

RECURSIVE ParseRowsFrom(_, _, _, _, _, _)
ParseRowsFrom(acc, enabled, rows, i, dataType, language) ==
    IF i > Len(rows) THEN acc
    ELSE ParseRowsFrom(ParseRowsStep(acc, enabled, rows[i], i - 1, dataType, language),
                       enabled, rows, i + 1, dataType, language)

parseRows(h, c, enabled, rows, dataType, language) ==
    ParseRowsFrom([heap |-> h, cache |-> c, data |-> <<>>, errors |-> <<>>,
                   statistics |-> ZeroStatistics(Len(rows))],
                  enabled, rows, 1, dataType, language)

\* SheetsParser.getFinalValues
getFinalValues(h, row, dataType) ==
    LET fromJSON(k) == IF row.old_json_values.t \in {"null", "undefined"}
                       THEN Undefined
                       ELSE GetProp(h, row.old_json_values, Str(k))
        name == Or(row.manual_name, Or(row.llm_name, Or(row.old_name,
                   Or(fromJSON("name"), EmptyStr))))
    IN
    IF dataType = "doctor"
    THEN [id |-> row.id, name |-> name,
          history |-> Or(row.manual_history, Or(row.llm_history, Or(row.old_history,
                         Or(fromJSON("history"), EmptyStr))))]
    ELSE [id |-> row.id, name |-> name,
          description |-> Or(row.manual_description, Or(row.llm_description,
                             Or(row.old_description,
                                Or(fromJSON("description"), EmptyStr))))]

----------------------------------------------------------------------------
(* JSONBuilder *)

\* getFinalValuesWithOld with the MT value ranked above the manual value
getFinalValuesWithOld_llmFirst(h, row, dataType) ==
    LET fromJSON(k) == IF row.old_json_values.t \in {"null", "undefined"}
                       THEN Undefined
                       ELSE GetProp(h, row.old_json_values, Str(k))
        name == Or(row.llm_name, Or(row.manual_name, Or(row.old_name,
                   Or(fromJSON("name"), EmptyStr))))
    IN
    IF dataType = "doctor"
    THEN [id |-> Or(row.id, EmptyStr), name |-> name,
          history |-> Or(row.llm_history, Or(row.manual_history, Or(row.old_history,
                         Or(fromJSON("history"), EmptyStr))))]
    ELSE [id |-> Or(row.id, EmptyStr), name |-> name,
          description |-> Or(row.llm_description, Or(row.manual_description,
                             Or(row.old_description,
                                Or(fromJSON("description"), EmptyStr))))]

getFinalValuesWithOld(h, row, dataType) ==
    LET fromJSON(k) == IF row.old_json_values.t \in {"null", "undefined"}
                       THEN Undefined
                       ELSE GetProp(h, row.old_json_values, Str(k))
        name == Or(row.manual_name, Or(row.llm_name, Or(row.old_name,
                   Or(fromJSON("name"), EmptyStr))))
    IN
    IF dataType = "doctor"
    THEN [id |-> Or(row.id, EmptyStr), name |-> name,
          history |-> Or(row.manual_history, Or(row.llm_history, Or(row.old_history,
                         Or(fromJSON("history"), EmptyStr))))]
    ELSE [id |-> Or(row.id, EmptyStr), name |-> name,
          description |-> Or(row.manual_description, Or(row.llm_description,
                             Or(row.old_description,
                                Or(fromJSON("description"), EmptyStr))))]

\* JSONBuilder.getFinalValues (deprecated alias)
builderGetFinalValues(h, row, dataType) == getFinalValuesWithOld(h, row, dataType)

\* buildUpdatedJSON that writes the content under history for every data type
buildUpdatedJSON_alwaysHistory(h, c, row, dataType, language) ==
    LET base == IF Truthy(row.old_json_parsed)
                THEN [h |-> h, v |-> row.old_json_parsed]
                ELSE NewObject(h, <<>>)
        finalValues == getFinalValuesWithOld(base.h, row, dataType)
        languageData ==
            NewObject(base.h, <<[k |-> Str("id"), v |-> finalValues.id],
                                [k |-> Str("name"), v |-> finalValues.name],
                                [k |-> Str("history"),
                                 v |-> finalValues[ContentField(dataType)]]>>)
    IN merge(languageData.h, c, base.v, language, languageData.v)

\* buildUpdatedJSON that assigns the entry into row.old_json_parsed itself
buildUpdatedJSON_inPlace(h, c, row, dataType, language) ==
    LET base == IF Truthy(row.old_json_parsed)
                THEN [h |-> h, v |-> row.old_json_parsed]
                ELSE NewObject(h, <<>>)
        finalValues == getFinalValuesWithOld(base.h, row, dataType)
        languageData ==
            NewObject(base.h, <<[k |-> Str("id"), v |-> finalValues.id],
                                [k |-> Str("name"), v |-> finalValues.name],
                                [k |-> Str(ContentField(dataType)),
                                 v |-> finalValues[ContentField(dataType)]]>>)
    IN Return([languageData.h EXCEPT ![base.v.r] = Put(@, language.s, languageData.v)],
              c, base.v)

\* JSONBuilder.buildUpdatedJSON
buildUpdatedJSON(h, c, row, dataType, language) ==
    LET base == IF Truthy(row.old_json_parsed)
                THEN [h |-> h, v |-> row.old_json_parsed]
                ELSE NewObject(h, <<>>)
        finalValues == getFinalValuesWithOld(base.h, row, dataType)
        languageData ==
            IF dataType = "doctor"
            THEN NewObject(base.h, <<[k |-> Str("id"), v |-> finalValues.id],
                                     [k |-> Str("name"), v |-> finalValues.name],
                                     [k |-> Str("history"), v |-> finalValues.history]>>)
            ELSE NewObject(base.h, <<[k |-> Str("id"), v |-> finalValues.id],
                                     [k |-> Str("name"), v |-> finalValues.name],
                                     [k |-> Str("description"), v |-> finalValues.description]>>)
    IN merge(languageData.h, c, base.v, language, languageData.v)

\* buildJSON from the result r of buildUpdatedJSON on: the object and its text
BuiltJSON(r) ==
    [heap |-> r.heap, cache |-> r.cache, thrown |-> r.thrown, object |-> r.ret,
     string |-> stringify(r.heap, r.ret)]

\* JSONBuilder.buildJSON
buildJSON(h, c, row, dataType, language) ==
    BuiltJSON(buildUpdatedJSON(h, c, row, dataType, Or(language, row.language)))

\* the result entry of buildBatchJSON for the row at 0-based position index,
\* with the results in reverse order
BatchResult_reversed(acc, j, row, index) ==
    [heap |-> j.heap, cache |-> j.cache,
     results |-> <<[rowIndex |-> IF row.rowIndex.t # "undefined" THEN row.rowIndex
                                 ELSE index,
                    id |-> row.id, json |-> j.string, object |-> j.object,
                    success |-> TRUE]>> \o acc.results]

\* the body of the map of buildBatchJSON for the row at 0-based position
\* index: j is what buildJSON returned or raised
BatchResult(acc, j, row, index) ==
    [heap |-> j.heap, cache |-> j.cache,
     results |-> Append(acc.results,
        IF j.thrown
        THEN [rowIndex |-> IF row.rowIndex.t # "undefined" THEN row.rowIndex ELSE index,
              id |-> row.id, json |-> EmptyStr, error |-> "error.message",
              success |-> FALSE]
        ELSE [rowIndex |-> IF row.rowIndex.t # "undefined" THEN row.rowIndex ELSE index,
              id |-> row.id, json |-> j.string, object |-> j.object,
              success |-> TRUE])]

RECURSIVE BuildBatchFrom(_, _, _, _, _)
BuildBatchFrom(acc, rows, i, dataType, language) ==
    IF i > Len(rows) THEN acc
    ELSE BuildBatchFrom(
             BatchResult(acc, buildJSON(acc.heap, acc.cache, rows[i], dataType, language),
                         rows[i], i - 1),
             rows, i + 1, dataType, language)

\* JSONBuilder.buildBatchJSON
buildBatchJSON(h, c, rows, dataType, language) ==
    BuildBatchFrom([heap |-> h, cache |-> c, results |-> <<>>], rows, 1, dataType, language)

\* trans.translated of a translation result: undefined when it carries an error
Translated(trans) ==
    IF "translated" \in DOMAIN trans THEN trans.translated ELSE Undefined

\* translationMap: translations.forEach(trans => map.set(trans.id, trans.translated))
RECURSIVE TranslationMap(_, _, _)
TranslationMap(map, translations, i) ==
    IF i > Len(translations) THEN map
    ELSE TranslationMap(Put(map, translations[i].id, Translated(translations[i])),
                        translations, i + 1)

\* translation.name, translation.history, translation.description
TranslationField(translation, k) == Get(translation.o, Str(k))

\* the body of the map of mergeTranslations: translation is translationMap.get(row.id)
MergedRow(row, translation, dataType) ==
    IF ~Truthy(translation) THEN row
    ELSE IF dataType = "doctor"
    THEN [row EXCEPT !.llm_name = Or(TranslationField(translation, "name"), EmptyStr),
                     !.llm_history = Or(TranslationField(translation, "history"), EmptyStr)]
    ELSE [row EXCEPT !.llm_name = Or(TranslationField(translation, "name"), EmptyStr),
                     !.llm_description =
                         Or(TranslationField(translation, "description"), EmptyStr)]

\* mergeTranslations that assigns the translation into the original rows
mergeTranslations_inPlace(originalRows, translations, dataType) ==
    [rows |-> [i \in 1..Len(originalRows) |->
                 MergedRow(originalRows[i],
                           Get(TranslationMap(<<>>, translations, 1), originalRows[i].id),
                           dataType)],
     ret |-> [i \in 1..Len(originalRows) |->
                 MergedRow(originalRows[i],
                           Get(TranslationMap(<<>>, translations, 1), originalRows[i].id),
                           dataType)]]

\* JSONBuilder.mergeTranslations: rows are the original rows after the call,
\* ret is the list it returns
mergeTranslations(originalRows, translations, dataType) ==
    [rows |-> originalRows,
     ret |-> [i \in 1..Len(originalRows) |->
                 MergedRow(originalRows[i],
                           Get(TranslationMap(<<>>, translations, 1), originalRows[i].id),
                           dataType)]]

----------------------------------------------------------------------------
(* TranslationService *)

\* SheetsParser.getRowsForTranslation
getRowsForTranslation(rows) == SelectSeq(rows, LAMBDA row : row.needsTranslation)

\* TRANSLATION.BATCH_SIZE, scaled down from the configured 50
BATCH_SIZE == 2

\* the text DeepL returns for a Korean text
Translation(text) == S(<<"T">> \o text.s)

\* TranslationService.hasContentChanged
serviceHasContentChanged(row, dataType) ==
    IF ~Truthy(row.old_name) THEN TRUE
    ELSE IF dataType = "doctor"
    THEN row.kr_name # row.old_name \/ row.kr_history # row.old_history
    ELSE row.kr_name # row.old_name \/ row.kr_description # row.old_description

\* the test of filterRowsForTranslation: the row is translated
ToTranslate(row, dataType) ==
    ~Truthy(row.llm_name) \/ serviceHasContentChanged(row, dataType)

\* filterRowsForTranslation that looks at the content change only
filterRowsForTranslation_changedOnly(rows, dataType) ==
    [rowsToTranslate |->
        SelectSeq(rows, LAMBDA row : Truthy(row.old_name)
                                     /\ serviceHasContentChanged(row, dataType)),
     skippedRows |->
        SelectSeq(rows, LAMBDA row : ~(Truthy(row.old_name)
                                       /\ serviceHasContentChanged(row, dataType)))]

\* TranslationService.filterRowsForTranslation
filterRowsForTranslation(rows, dataType) ==
    [rowsToTranslate |-> SelectSeq(rows, LAMBDA row : ToTranslate(row, dataType)),
     skippedRows |-> SelectSeq(rows, LAMBDA row : ~ToTranslate(row, dataType))]

\* the item createBatches makes of a row
BatchItem(row, dataType) ==
    [id |-> row.id, rowIndex |-> row.rowIndex,
     texts |-> Tree(<<[k |-> Str("name"), v |-> Or(row.kr_name, EmptyStr)],
                      [k |-> Str(ContentField(dataType)),
                       v |-> Or(row["kr_" \o ContentField(dataType)], EmptyStr)]>>)]

\* TranslationService.createBatches
createBatches(rows, dataType) ==
    [b \in 1..((Len(rows) + BATCH_SIZE - 1) \div BATCH_SIZE) |->
        [j \in 1..(IF b * BATCH_SIZE <= Len(rows) THEN BATCH_SIZE
                   ELSE Len(rows) - (b - 1) * BATCH_SIZE) |->
            BatchItem(rows[(b - 1) * BATCH_SIZE + j], dataType)]]

\* text && text.trim(): the text is sent to the API
Sent(text) == Truthy(text) /\ Trim(text.s) # <<>>

\* the members of item.texts that are sent, translated
RECURSIVE TranslatedMembers(_, _)
TranslatedMembers(texts, i) ==
    IF i > Len(texts) THEN <<>>
    ELSE IF Sent(texts[i].v)
    THEN <<[k |-> texts[i].k, v |-> Or(Translation(texts[i].v), EmptyStr)]>>
         \o TranslatedMembers(texts, i + 1)
    ELSE TranslatedMembers(texts, i + 1)

\* textsToTranslate.length > 0: translateBatch calls the API
CallsAPI(batch) ==
    \E j \in 1..Len(batch) :
        \E i \in 1..Len(batch[j].texts.o) : Sent(batch[j].texts.o[i].v)

\* the result of translateBatch for one item when the API call succeeds
ItemResult(item) ==
    [id |-> item.id, rowIndex |-> item.rowIndex,
     translated |-> IF TranslatedMembers(item.texts.o, 1) # <<>>
                    THEN Tree(TranslatedMembers(item.texts.o, 1))
                    ELSE item.texts,
     success |-> TRUE]

\* the result translateRows records for an item of a batch that failed
FailedResult(item) ==
    [id |-> item.id, rowIndex |-> item.rowIndex, error |-> "error.message",
     success |-> FALSE]

\* the loop body of translateRows without the results of a failed batch
BatchResults_dropFailed(batch, outcome) ==
    IF outcome = "fail" /\ CallsAPI(batch)
    THEN <<>>
    ELSE [j \in 1..Len(batch) |-> ItemResult(batch[j])]

\* the results of the loop body of translateRows for one batch; only a batch
\* that calls the API can fail
BatchResults(batch, outcome) ==
    IF outcome = "fail" /\ CallsAPI(batch)
    THEN [j \in 1..Len(batch) |-> FailedResult(batch[j])]
    ELSE [j \in 1..Len(batch) |-> ItemResult(batch[j])]

RECURSIVE AllBatchResults(_, _, _)
AllBatchResults(batches, outcomes, b) ==
    IF b > Len(batches) THEN <<>>
    ELSE BatchResults(batches[b], outcomes[b]) \o AllBatchResults(batches, outcomes, b + 1)

\* the result translateRows adds for a skipped row
SkippedResult(row, dataType) ==
    [id |-> row.id, rowIndex |-> row.rowIndex,
     translated |->
        Tree(<<[k |-> Str("name"), v |-> Or(row.old_name, Or(row.llm_name, EmptyStr))],
               [k |-> Str(ContentField(dataType)),
                v |-> Or(row["old_" \o ContentField(dataType)],
                         Or(row["llm_" \o ContentField(dataType)], EmptyStr))]>>),
     skipped |-> TRUE, success |-> TRUE]

\* the value translateRows returns, from the rows, the filter's answer and
\* the results
TranslationData(rows, filtered, results) ==
    [results |-> results,
     statistics |->
        [total |-> Len(rows),
         translated |-> Len(SelectSeq(results,
                            LAMBDA r : r.success /\ "skipped" \notin DOMAIN r)),
         skipped |-> Len(filtered.skippedRows),
         failed |-> Len(SelectSeq(results, LAMBDA r : ~r.success))]]

\* the part of translateRows after the filter: outcomes[b] tells whether the
\* API call of batch b succeeds
TranslateFiltered(rows, filtered, dataType, outcomes) ==
    TranslationData(rows, filtered,
        AllBatchResults(createBatches(filtered.rowsToTranslate, dataType), outcomes, 1)
        \o [j \in 1..Len(filtered.skippedRows) |->
               SkippedResult(filtered.skippedRows[j], dataType)])

\* TranslationService.translateRows
translateRows(rows, dataType, outcomes) ==
    IF Len(rows) = 0
    THEN [results |-> <<>>,
          statistics |-> [total |-> 0, translated |-> 0, skipped |-> 0, failed |-> 0]]
    ELSE TranslateFiltered(rows, filterRowsForTranslation(rows, dataType), dataType,
                           outcomes)

----------------------------------------------------------------------------
(* SheetsWriter *)

\* a number computed by the writer
Num(n) == [t |-> "int", i |-> n]

\* the decimal text of a small number
NumText(n) == <<"0", "1", "2", "3", "4", "5", "6", "7", "8", "9", "10", "11", "12">>[n + 1]

\* the value of a numeric cell
NumValue(literal) ==
    CASE literal = "0" -> 0 [] literal = "1" -> 1 [] literal = "2" -> 2
      [] literal = "3" -> 3 [] literal = "42" -> 42

\* String(v) for the values a row number can be, as atoms
ToText(v) ==
    CASE v.t = "int" -> <<NumText(v.i)>>
      [] v.t = "str" -> v.s
      [] v.t = "nan" -> <<"NaN">>
      [] OTHER -> <<"undefined">>

\* v + n for a number n: addition on numbers and null, concatenation on strings
Plus(v, n) ==
    CASE v.t = "int" -> Num(v.i + n)
      [] v.t = "num" -> Num(NumValue(v.n) + n)
      [] v.t = "null" -> Num(n)
      [] v.t = "str" -> S(v.s \o <<NumText(n)>>)
      [] OTHER -> [t |-> "nan"]

\* COLUMN_LETTERS[dataType]: the same letters for both data types
ColumnLetter(field) ==
    CASE field = "llm_name" -> "J"
      [] field \in {"llm_history", "llm_description"} -> "K"
      [] field = "updated_json" -> "L"

\* the range text that names the first row of the group only
RangeText_startOnly(sheetName, column, group) ==
    <<"'">> \o sheetName \o <<"'!", column>> \o ToText(group.startRow)

\* the range text of a group of createNonContiguousUpdates
RangeText(sheetName, column, group) ==
    IF group.startRow = group.endRow
    THEN <<"'">> \o sheetName \o <<"'!", column>> \o ToText(group.startRow)
    ELSE <<"'">> \o sheetName \o <<"'!", column>> \o ToText(group.startRow)
         \o <<":", column>> \o ToText(group.endRow)

\* the update pushed for a group
GroupUpdate(sheetName, column, group) ==
    [range |-> RangeText(sheetName, column, group), values |-> group.values]

\* the loop of createNonContiguousUpdates from position acc.i (1-based) on
RECURSIVE GroupRows(_, _, _, _, _)
GroupRows(acc, sheetName, column, rowIndices, values) ==
    IF acc.i > Len(rowIndices) THEN acc
    ELSE IF rowIndices[acc.i] = Plus(acc.group.endRow, 1)
    THEN GroupRows([acc EXCEPT !.group.endRow = rowIndices[acc.i],
                               !.group.values = Append(@, values[acc.i]),
                               !.i = @ + 1],
                   sheetName, column, rowIndices, values)
    ELSE GroupRows([updates |-> Append(acc.updates,
                                       GroupUpdate(sheetName, column, acc.group)),
                    group |-> [startRow |-> rowIndices[acc.i],
                               endRow |-> rowIndices[acc.i],
                               values |-> <<values[acc.i]>>],
                    i |-> acc.i + 1],
                   sheetName, column, rowIndices, values)

\* the updates and the final group added to them
WithFinalGroup(acc, sheetName, column) ==
    Append(acc.updates, GroupUpdate(sheetName, column, acc.group))

\* SheetsWriter.createNonContiguousUpdates, for a non-empty list of rows
createNonContiguousUpdates(sheetName, column, rowIndices, values) ==
    WithFinalGroup(GroupRows([updates |-> <<>>,
                              group |-> [startRow |-> rowIndices[1],
                                         endRow |-> rowIndices[1],
                                         values |-> <<values[1]>>],
                              i |-> 2],
                             sheetName, column, rowIndices, values),
                   sheetName, column)

\* WRITE_CONFIG.RETRY_ATTEMPTS and RETRY_DELAY
RETRY_ATTEMPTS == 3
RETRY_DELAY == 1000

RECURSIVE Pow2(_)
Pow2(n) == IF n = 0 THEN 1 ELSE 2 * Pow2(n - 1)

\* the rows and the updates of writeJSONResults for the successful results
\* of buildBatchJSON: targets pairs each result's id with its row number
writeJSONResults(sheetName, jsonResults) ==
    [targets |-> [k \in 1..Len(jsonResults) |->
                    [id |-> jsonResults[k].id, rowNumber |-> Plus(jsonResults[k].rowIndex, 2)]],
     updates |-> createNonContiguousUpdates(sheetName, ColumnLetter("updated_json"),
                    [k \in 1..Len(jsonResults) |-> Plus(jsonResults[k].rowIndex, 2)],
                    [k \in 1..Len(jsonResults) |-> <<jsonResults[k].json>>])]

\* translatedRows of writeLLMTranslations: successful and not skipped
TranslatedRows(translations) ==
    SelectSeq(translations, LAMBDA t : t.success /\ "skipped" \notin DOMAIN t)

\* the rows and updates of writeLLMTranslations for its translatedRows, which
\* are not empty: the name column, then the content column
LLMUpdates(sheetName, rows, dataType) ==
    [targets |-> [k \in 1..Len(rows) |->
                    [id |-> rows[k].id, rowNumber |-> Plus(rows[k].rowIndex, 2)]],
     updates |->
        createNonContiguousUpdates(sheetName, ColumnLetter("llm_name"),
            [k \in 1..Len(rows) |-> Plus(rows[k].rowIndex, 2)],
            [k \in 1..Len(rows) |->
                <<Or(TranslationField(rows[k].translated, "name"), EmptyStr)>>])
        \o createNonContiguousUpdates(sheetName,
            ColumnLetter("llm_" \o ContentField(dataType)),
            [k \in 1..Len(rows) |-> Plus(rows[k].rowIndex, 2)],
            [k \in 1..Len(rows) |->
                <<Or(TranslationField(rows[k].translated, ContentField(dataType)),
                     EmptyStr)>>])]

\* SheetsWriter.writeLLMTranslations up to the batchUpdate call
writeLLMTranslations(sheetName, translations, dataType) ==
    IF TranslatedRows(translations) = <<>>
    THEN [targets |-> <<>>, updates |-> <<>>]
    ELSE LLMUpdates(sheetName, TranslatedRows(translations), dataType)

----------------------------------------------------------------------------
(* ProgressStepsManager and ProgressTracker *)

\* the weights createTranslationSteps gives the seven steps
Weights == <<1, 1, 1, 4, 2, 1, 2>>

RECURSIVE WeightedSum(_, _)
WeightedSum(steps, i) ==
    IF i > Len(steps) THEN 0 ELSE steps[i] * Weights[i] + WeightedSum(steps, i + 1)

\* ProgressStepsManager.totalWeight
totalWeight == WeightedSum([i \in 1..Len(Weights) |-> 1], 1)

\* Math.min(Math.max(percent, 0), 100)
Clamp(percent) == IF percent < 0 THEN 0 ELSE IF percent > 100 THEN 100 ELSE percent

\* _updateOverallProgress: Math.round of the weighted mean, given to
\* tracker.updateProgress
OverallProgress(steps) ==
    Clamp((2 * WeightedSum(steps, 1) + totalWeight) \div (2 * totalWeight))

\* the manager reports the overall progress to the tracker after event on stepId
Report(ps, event, stepId) ==
    [ps EXCEPT !.progress = OverallProgress(ps.steps),
               !.reported = Append(@, [event |-> event, step |-> stepId,
                                       value |-> OverallProgress(ps.steps)])]

\* ProgressStepsManager.startStep
startStep(ps, stepId) == Report([ps EXCEPT !.steps[stepId + 1] = 0], "start", stepId)

\* ProgressStepsManager.updateStepProgress
updateStepProgress(ps, stepId, progress) ==
    Report([ps EXCEPT !.steps[stepId + 1] = Clamp(progress)], "update", stepId)

\* ProgressStepsManager.completeStep
completeStep(ps, stepId) == Report([ps EXCEPT !.steps[stepId + 1] = 100], "complete", stepId)

\* ProgressTracker.show: the tracker resets itself, not the steps
show(ps) == [ps EXCEPT !.active = TRUE, !.progress = 0, !.reported = <<>>]

\* ProgressTracker.hide
hide(ps) == [ps EXCEPT !.active = FALSE]

\* ProgressTracker.complete
complete(ps) ==
    [ps EXCEPT !.progress = Clamp(100),
               !.reported = Append(@, [event |-> "tracker.complete", step |-> 7,
                                       value |-> Clamp(100)])]

\* SheetsParser.validateSheetStructure, the part the workflow reads
validateSheetStructure(rows) ==
    IF Len(rows) = 0
    THEN [isValid |-> FALSE, errors |-> <<"Sheet contains no data rows">>]
    ELSE [isValid |-> TRUE, errors |-> <<>>]

----------------------------------------------------------------------------
(* MedicalTranslationApp: handleFormSubmit and the workflow
   startTranslationWithManualOverride, cut at its awaits.  The operators take
   the application record a and return it as the code leaves it. *)

\* handleTranslationError, reached through the catch of handleFormSubmit
handleTranslationError(a, message) ==
    hide([a EXCEPT !.isTranslating = FALSE, !.display = message, !.pc = "idle"])

\* handleTranslationSuccess up to its setTimeout
handleTranslationSuccess(a, result) ==
    complete([a EXCEPT !.results = result, !.isTranslating = FALSE, !.pc = "results"])

\* the summary the workflow returns
Summary(a, rows) ==
    [success |-> TRUE, totalRows |-> Len(rows),
     rowsTranslated |-> a.translationData.statistics.translated,
     rowsSkipped |-> a.translationData.statistics.skipped,
     jsonGenerated |-> Len(SelectSeq(a.jsonResults, LAMBDA r : r.success))]

\* step 6 up to its await, with the results b of buildBatchJSON: the write is
\* awaited when a JSON was built, else the workflow returns
UpdateSpreadsheet(a, b, rows) ==
    IF SelectSeq(b.results, LAMBDA r : r.success) # <<>>
    THEN [app |-> [a EXCEPT !.jsonResults = b.results, !.pc = "writeJSON"],
          heap |-> b.heap, cache |-> b.cache]
    ELSE [app |-> handleTranslationSuccess(
                      completeStep([a EXCEPT !.jsonResults = b.results], 6),
                      Summary([a EXCEPT !.jsonResults = b.results], rows)),
          heap |-> b.heap, cache |-> b.cache]

\* step 5 and the start of step 6, from the application after step 4
GenerateJSON(a, h, c, rows, dataType, language) ==
    UpdateSpreadsheet(
        startStep(completeStep(updateStepProgress(startStep(a, 5), 5, 100), 5), 6),
        buildBatchJSON(h, c,
                       mergeTranslations(rows, a.translationData.results, dataType).ret,
                       dataType, language),
        rows)

\* step 4 up to its await, from the application after step 3: the write is
\* awaited when a translation succeeded
WriteTranslations(a, h, c, rows, dataType, language) ==
    IF SelectSeq(a.translationData.results, LAMBDA r : r.success) # <<>>
    THEN [app |-> [startStep(a, 4) EXCEPT !.pc = "writeLLM"], heap |-> h, cache |-> c]
    ELSE GenerateJSON(completeStep(startStep(a, 4), 4), h, c, rows, dataType, language)

\* steps 2 and 3 up to the first await, with the result r of parseRows
AnalyzeData(a, r, dataType, language) ==
    IF ~validateSheetStructure(a.sheet).isValid
    THEN [app |-> handleTranslationError(startStep(completeStep(a, 1), 2),
                      "Invalid sheet structure: Sheet contains no data rows"),
          heap |-> r.heap, cache |-> r.cache]
    ELSE IF Len(getRowsForTranslation(r.data)) > 0
    THEN [app |-> [startStep(completeStep(startStep(startStep(completeStep(a, 1), 2), 2),
                                          2), 3)
                   EXCEPT !.pc = "translate"],
          heap |-> r.heap, cache |-> r.cache]
    ELSE WriteTranslations(
             completeStep(startStep(completeStep(startStep(startStep(
                 completeStep(a, 1), 2), 2), 2), 3), 3),
             r.heap, r.cache, r.data, dataType, language)

\* the onProgress calls of translateRows: after batch b of n succeeds, step 3
\* is at b / n * 100
RECURSIVE BatchProgress(_, _, _, _)
BatchProgress(a, batches, outcomes, b) ==
    IF b > Len(batches) THEN a
    ELSE IF outcomes[b] = "fail" /\ CallsAPI(batches[b])
    THEN BatchProgress(a, batches, outcomes, b + 1)
    ELSE BatchProgress(updateStepProgress(a, 3, (b * 100) \div Len(batches)),
                       batches, outcomes, b + 1)

----------------------------------------------------------------------------
(* Inputs *)

\* "x" as it is written in a JSON text
Quoted(x) == <<QUOTE, x, QUOTE>>
\* "k":v
Member(k, v) == Quoted(k) \o <<":">> \o v
\* {m1,m2}
Braces1(m) == <<"{">> \o m \o <<"}">>
Braces2(m1, m2) == <<"{">> \o m1 \o <<",">> \o m2 \o <<"}">>

TextEmpty == <<>>
TextBlank == <<WS, WS>>
TextNotJSON == <<"not", WS, "json">>
TextTruncated == <<"{">> \o Quoted("en") \o <<":">>
TextArray == <<"[", "1", ",", "2", ",", "3", "]">>
TextString == <<QUOTE, "a", WS, "string", QUOTE>>
TextNumber == <<"42">>
TextNull == <<"null">>
TextEmptyObject == <<"{", "}">>
\* {"en":{"name":"x"}}
TextEn == Braces1(Member("en", Braces1(Member("name", Quoted("x")))))
\* the same object, written with white space
TextEnSpaced == <<WS, "{", WS>> \o Quoted("en") \o <<WS, ":", WS>>
                \o Braces1(Member("name", Quoted("x"))) \o <<WS, "}", WS>>
\* {"ja":{"name":"J","history":"JH"},"meta":"v1"}
TextJa == Braces2(Member("ja", Braces2(Member("name", Quoted("J")),
                                        Member("history", Quoted("JH")))),
                  Member("meta", Quoted("v1")))
\* {"en":{"name":"E","extra":"k"},"fr":{"name":"F"}}
TextEnFr == Braces2(Member("en", Braces2(Member("name", Quoted("E")),
                                          Member("extra", Quoted("k")))),
                    Member("fr", Braces1(Member("name", Quoted("F")))))

ObjectTexts == {TextEmptyObject, TextEn, TextEnSpaced, TextJa, TextEnFr}
OtherTexts == {TextEmpty, TextBlank, TextNotJSON, TextTruncated, TextArray,
               TextString, TextNumber, TextNull}
Texts == ObjectTexts \cup OtherTexts

\* what an old_json cell can hold: UNFORMATTED_VALUE cells are strings,
\* numbers or booleans; a missing cell is undefined or null
NonStrings == {Null, Undefined, N("0"), N("42"), B(TRUE), B(FALSE)}
ParseInputs == {S(t) : t \in Texts} \cup NonStrings

MergeLanguages == {S(Str("en")), S(Str("ja")), S(Str("fr")), EmptyStr, Undefined}

\* payloads handed to merge
Payloads == {
    <<>>,
    <<[k |-> Str("name"), v |-> S(Str("N"))]>>,
    <<[k |-> Str("id"), v |-> S(Str("d1"))], [k |-> Str("name"), v |-> S(Str("John"))],
      [k |-> Str("history"), v |-> S(Str("bio"))]>> }

\* PERFORMANCE.JSON_CACHE.ENABLED
JSON_CACHE_ENABLED == TRUE

\* a 12-cell raw row of a doctor or hospital sheet
RawRow(id, kr_name, kr_content, language, old_name, old_content, old_json, manual_name, manual_content, llm_name, llm_content, updated_json) ==
    <<id, kr_name, kr_content, language, old_name, old_content, old_json,
      manual_name, manual_content, llm_name, llm_content, updated_json>>

DataTypes == {"doctor", "hospital"}

----------------------------------------------------------------------------
(* State *)

VARIABLES
    heap,        \* the objects allocated so far
    cache,       \* MultiLanguageJSONHandler._cache, entries in insertion order
    objs,        \* the objects the caller got back from parse, merge and build
    data,        \* the rows of the last parseRows
    errors,      \* the errors of the last parseRows
    statistics,  \* the statistics of the last parseRows
    run,         \* dataType and language of the last parseRows
    last,        \* the last call: its arguments, the heap before it, its result
    off,         \* the same calls made with JSON_CACHE.ENABLED = false
    calls,       \* number of calls made
    app          \* MedicalTranslationApp: its state, its progress steps and
                 \* tracker, the running workflow and what it wrote and showed

vars == <<heap, cache, objs, data, errors, statistics, run, last, off, calls, app>>

\* the application after construction: nothing runs, the seven steps are
\* pending, the tracker is hidden
AppInit ==
    [pc |-> "idle", isTranslating |-> FALSE, cancelled |-> FALSE, sheet |-> <<>>,
     steps |-> [i \in 1..Len(Weights) |-> 0], progress |-> 0, active |-> FALSE,
     reported |-> <<>>, writes |-> <<>>, display |-> "none", results |-> Undefined,
     translationData |-> translateRows(<<>>, "doctor", <<>>), jsonResults |-> <<>>]

Init ==
    /\ heap = <<>>
    /\ cache = <<>>
    /\ objs = <<>>
    /\ data = <<>>
    /\ errors = <<>>
    /\ statistics = ZeroStatistics(0)
    /\ run = [dataType |-> "doctor", language |-> S(Str("en"))]
    /\ last = [op |-> "none"]
    /\ off = [heap |-> <<>>, objs |-> <<>>, data |-> <<>>, errors |-> <<>>,
              thrown |-> FALSE, ret |-> Undefined]
    /\ calls = 0
    /\ app = AppInit

\* the caller keeps what a call returned
Kept(held, r) == IF r.thrown THEN held ELSE Append(held, r.ret)

\* MultiLanguageJSONHandler.parse(x)
ParseCall(x) ==
    \E r \in {parse(heap, cache, JSON_CACHE_ENABLED, x)},
       q \in {parse(off.heap, <<>>, FALSE, x)} :
    /\ heap' = r.heap
    /\ cache' = r.cache
    /\ objs' = Kept(objs, r)
    /\ last' = [op |-> "parse", arg |-> x, pre |-> heap, preCache |-> cache,
                thrown |-> r.thrown, ret |-> r.ret]
    /\ off' = [off EXCEPT !.heap = q.heap, !.objs = Kept(@, q),
                          !.thrown = q.thrown, !.ret = q.ret]
    /\ calls' = calls + 1
    /\ UNCHANGED <<data, errors, statistics, run, app>>

\* MultiLanguageJSONHandler.merge(existing, language, { ...payload }), where
\* existing is the k-th object the caller holds, or null when k = 0
MergeCall(k, language, payload) ==
    LET arg == NewObject(heap, payload)
        existing == IF k = 0 THEN Null ELSE objs[k]
        r == merge(arg.h, cache, existing, language, arg.v)
        argOff == NewObject(off.heap, payload)
        existingOff == IF k = 0 THEN Null ELSE off.objs[k]
        q == merge(argOff.h, <<>>, existingOff, language, argOff.v)
    IN
    /\ heap' = r.heap
    /\ cache' = r.cache
    /\ objs' = Kept(objs, r)
    /\ last' = [op |-> "merge", existing |-> existing, language |-> language,
                newData |-> arg.v, pre |-> arg.h, preCache |-> cache,
                thrown |-> r.thrown, ret |-> r.ret]
    /\ off' = [off EXCEPT !.heap = q.heap, !.objs = Kept(@, q),
                          !.thrown = q.thrown, !.ret = q.ret]
    /\ calls' = calls + 1
    /\ UNCHANGED <<data, errors, statistics, run, app>>

\* SheetsParser.parseRows(rows, dataType, columnStructure, language)
ParseRowsCall(rows, dataType, language) ==
    \E r \in {parseRows(heap, cache, JSON_CACHE_ENABLED, rows, dataType, language)},
       q \in {parseRows(off.heap, <<>>, FALSE, rows, dataType, language)} :
    /\ heap' = r.heap
    /\ cache' = r.cache
    /\ data' = r.data
    /\ errors' = r.errors
    /\ statistics' = r.statistics
    /\ run' = [dataType |-> dataType, language |-> language]
    /\ last' = [op |-> "parseRows", rows |-> rows, pre |-> heap, preCache |-> cache,
                thrown |-> FALSE, ret |-> Undefined]
    /\ off' = [off EXCEPT !.heap = q.heap, !.data = q.data, !.errors = q.errors,
                          !.thrown = FALSE, !.ret = Undefined]
    /\ calls' = calls + 1
    /\ UNCHANGED <<objs, app>>

\* JSONBuilder.buildJSON(data[i], dataType, language): buildUpdatedJSON for
\* language || row.language, and stringify of the object it returns
BuildCall(i, language) ==
    /\ i \in DOMAIN off.data
    /\ \E r \in {buildJSON(heap, cache, data[i], run.dataType, language)},
          q \in {buildJSON(off.heap, <<>>, off.data[i], run.dataType, language)} :
          /\ heap' = r.heap
          /\ cache' = r.cache
          /\ objs' = IF r.thrown THEN objs ELSE Append(objs, r.object)
          /\ last' = [op |-> "build", row |-> i, language |-> language, pre |-> heap,
                      preCache |-> cache, thrown |-> r.thrown, ret |-> r.object,
                      string |-> r.string]
          /\ off' = [off EXCEPT !.heap = q.heap, !.objs = IF q.thrown THEN @ ELSE Append(@, q.object),
                                !.thrown = q.thrown, !.ret = q.object]
          /\ calls' = calls + 1
          /\ UNCHANGED <<data, errors, statistics, run, app>>

\* SheetsParser.getFinalValues(data[i], dataType)
FinalValuesCall(i) ==
    /\ last' = [op |-> "getFinalValues", row |-> i, pre |-> heap, preCache |-> cache,
                thrown |-> FALSE, ret |-> getFinalValues(heap, data[i], run.dataType)]
    /\ calls' = calls + 1
    /\ UNCHANGED <<heap, cache, objs, data, errors, statistics, run, off, app>>

\* JSONBuilder.getFinalValuesWithOld(data[i], dataType)
FinalValuesWithOldCall(i) ==
    /\ last' = [op |-> "getFinalValuesWithOld", row |-> i, pre |-> heap,
                preCache |-> cache, thrown |-> FALSE,
                ret |-> getFinalValuesWithOld(heap, data[i], run.dataType)]
    /\ calls' = calls + 1
    /\ UNCHANGED <<heap, cache, objs, data, errors, statistics, run, off, app>>

\* MultiLanguageJSONHandler.getAvailableLanguages(json), where json is the
\* k-th object the caller holds, or null when k = 0
AvailableLanguagesCall(k) ==
    \E json \in {IF k = 0 THEN Null ELSE objs[k]} :
        /\ last' = [op |-> "getAvailableLanguages", json |-> json, pre |-> heap,
                    preCache |-> cache, thrown |-> FALSE,
                    ret |-> getAvailableLanguages(heap, json)]
        /\ calls' = calls + 1
        /\ UNCHANGED <<heap, cache, objs, data, errors, statistics, run, off, app>>

\* MultiLanguageJSONHandler.extractLanguage(json, language), json as above
ExtractLanguageCall(k, language) ==
    \E json \in {IF k = 0 THEN Null ELSE objs[k]} :
        /\ last' = [op |-> "extractLanguage", json |-> json, language |-> language,
                    pre |-> heap, preCache |-> cache, thrown |-> FALSE,
                    ret |-> extractLanguage(heap, json, language)]
        /\ calls' = calls + 1
        /\ UNCHANGED <<heap, cache, objs, data, errors, statistics, run, off, app>>

\* TranslationService.translateRows(rows, language, dataType, onProgress) on
\* all decoded rows or on those getRowsForTranslation selects
TranslateRowsCall(selected, outcomes) ==
    \E rows \in {IF selected THEN getRowsForTranslation(data) ELSE data} :
        /\ last' = [op |-> "translateRows", rows |-> rows, outcomes |-> outcomes,
                    pre |-> heap, preCache |-> cache, thrown |-> FALSE,
                    ret |-> Undefined,
                    filtered |-> filterRowsForTranslation(rows, run.dataType),
                    translationData |-> translateRows(rows, run.dataType, outcomes)]
        /\ calls' = calls + 1
        /\ UNCHANGED <<heap, cache, objs, data, errors, statistics, run, off, app>>

\* SheetsWriter.createNonContiguousUpdates(sheetName, column, rowIndices, values)
CreateUpdatesCall(sheetName, column, rowIndices, values) ==
    /\ last' = [op |-> "createNonContiguousUpdates", sheetName |-> sheetName,
                column |-> column, rowIndices |-> rowIndices, values |-> values,
                pre |-> heap, preCache |-> cache, thrown |-> FALSE, ret |-> Undefined,
                updates |-> createNonContiguousUpdates(sheetName, column, rowIndices,
                                                       values)]
    /\ calls' = calls + 1
    /\ UNCHANGED <<heap, cache, objs, data, errors, statistics, run, off, app>>

\* SheetsWriter.writeWithRetry is called: the loop starts with attempt 1
RetryStart ==
    /\ last' = [op |-> "writeWithRetry", pc |-> "attempt", attempt |-> 1,
                trace |-> <<>>, lastError |-> Undefined, pre |-> heap,
                preCache |-> cache, thrown |-> FALSE, ret |-> Undefined]
    /\ calls' = calls + 1
    /\ UNCHANGED <<heap, cache, objs, data, errors, statistics, run, off, app>>

\* writeWithRetry that also waits after the last failed attempt
RetryAttempt_alwaysDelay(succeeds) ==
    /\ last.op = "writeWithRetry"
    /\ last.pc = "attempt"
    /\ last' = IF succeeds
               THEN [last EXCEPT !.pc = "returned",
                                 !.trace = Append(@, [call |-> last.attempt, ok |-> TRUE]),
                                 !.ret = S(<<"result", NumText(last.attempt)>>)]
               ELSE [last EXCEPT !.pc = "delay",
                                 !.trace = Append(@, [call |-> last.attempt, ok |-> FALSE]),
                                 !.lastError = S(<<"error", NumText(last.attempt)>>)]
    /\ UNCHANGED <<heap, cache, objs, data, errors, statistics, run, off, calls, app>>

\* one turn of the loop of writeWithRetry up to its await: the write function
\* is called and returns or throws
RetryAttempt(succeeds) ==
    /\ last.op = "writeWithRetry"
    /\ last.pc = "attempt"
    /\ last' = IF succeeds
               THEN [last EXCEPT !.pc = "returned",
                                 !.trace = Append(@, [call |-> last.attempt, ok |-> TRUE]),
                                 !.ret = S(<<"result", NumText(last.attempt)>>)]
               ELSE IF last.attempt < RETRY_ATTEMPTS
               THEN [last EXCEPT !.pc = "delay",
                                 !.trace = Append(@, [call |-> last.attempt, ok |-> FALSE]),
                                 !.lastError = S(<<"error", NumText(last.attempt)>>)]
               ELSE [last EXCEPT !.pc = "thrown", !.thrown = TRUE,
                                 !.trace = Append(@, [call |-> last.attempt, ok |-> FALSE]),
                                 !.lastError = S(<<"error", NumText(last.attempt)>>),
                                 !.ret = S(<<"error", NumText(last.attempt)>>)]
    /\ UNCHANGED <<heap, cache, objs, data, errors, statistics, run, off, calls, app>>

\* the backoff delay of writeWithRetry elapses and the next attempt begins
RetryDelay ==
    /\ last.op = "writeWithRetry"
    /\ last.pc = "delay"
    /\ last' = [last EXCEPT !.pc = IF last.attempt < RETRY_ATTEMPTS THEN "attempt"
                                   ELSE "thrown",
                            !.thrown = ~(last.attempt < RETRY_ATTEMPTS),
                            !.ret = IF last.attempt < RETRY_ATTEMPTS THEN @
                                    ELSE last.lastError,
                            !.trace = Append(@, [delay |-> RETRY_DELAY * Pow2(last.attempt - 1)]),
                            !.attempt = @ + 1]
    /\ UNCHANGED <<heap, cache, objs, data, errors, statistics, run, off, calls, app>>

\* the rows the pipeline holds: those mergeTranslations returned if it was the
\* last call, else those of parseRows
CurrentRows == IF last.op = "mergeTranslations" THEN last.merged ELSE data

\* JSONBuilder.mergeTranslations(data, translations, dataType)
MergeTranslationsCall(translations) ==
    \E m \in {mergeTranslations(data, translations, run.dataType)} :
        /\ data' = m.rows
        /\ last' = [op |-> "mergeTranslations", rows |-> data,
                    translations |-> translations, pre |-> heap, preCache |-> cache,
                    thrown |-> FALSE, ret |-> Undefined, merged |-> m.ret]
        /\ calls' = calls + 1
        /\ UNCHANGED <<heap, cache, objs, errors, statistics, run, off, app>>

\* JSONBuilder.buildBatchJSON(rows, dataType, language) on the current rows
BuildBatchCall(language) ==
    \E r \in {buildBatchJSON(heap, cache, CurrentRows, run.dataType, language)} :
        /\ heap' = r.heap
        /\ cache' = r.cache
        /\ last' = [op |-> "buildBatch", rows |-> CurrentRows, language |-> language,
                    pre |-> heap, preCache |-> cache, thrown |-> FALSE,
                    ret |-> Undefined, results |-> r.results]
        /\ calls' = calls + 1
        /\ UNCHANGED <<objs, data, errors, statistics, run, off, app>>


\* handleFormSubmit(formData) up to the first await of the workflow: the
\* tracker is shown, step 0 checks the sign-in, step 1 asks for the sheet.
\* The locals of the workflow are fresh, and the rows of an earlier run, out
\* of reach, are collected.
FormSubmit(sheet, dataType, language, authenticated) ==
    /\ app.pc = "idle"
    /\ \E a \in {show([app EXCEPT !.isTranslating = TRUE, !.cancelled = FALSE,
                                  !.sheet = sheet, !.writes = <<>>, !.display = "none",
                                  !.translationData = AppInit.translationData,
                                  !.jsonResults = <<>>])} :
          app' = IF authenticated
                 THEN [startStep(completeStep(startStep(a, 0), 0), 1) EXCEPT !.pc = "load"]
                 ELSE handleTranslationError(startStep(a, 0), "AUTH_REQUIRED")
    /\ run' = [dataType |-> dataType, language |-> language]
    /\ calls' = calls + 1
    /\ data' = <<>>
    /\ errors' = <<>>
    /\ statistics' = ZeroStatistics(0)
    /\ heap' = IF cache = <<>> THEN <<>> ELSE heap
    /\ UNCHANGED <<cache, objs, last, off>>

\* the call the workflow awaits rejects (getSheetData, testConnection or
\* translateRows, a batchUpdate of the writer): the workflow throws
AwaitRejects ==
    /\ app.pc \in {"load", "translate", "writeLLM", "writeJSON"}
    /\ app.pc = "writeLLM" =>
          writeLLMTranslations(run.language.s,
              SelectSeq(app.translationData.results, LAMBDA r : r.success),
              run.dataType).updates # <<>>
    /\ app' = handleTranslationError(app,
                 CASE app.pc = "load" -> "SHEETS_ACCESS_DENIED"
                   [] app.pc = "translate" -> "Failed to connect to DeepL API"
                   [] app.pc = "writeLLM" -> "Failed to write translations"
                   [] OTHER -> "Failed to write JSON results")
    /\ UNCHANGED <<heap, cache, objs, data, errors, statistics, run, last, off, calls>>

\* getSheetData returns the rows below the header: steps 2 and 3 run up to
\* the next await
SheetLoaded ==
    /\ app.pc = "load"
    /\ \E r \in {parseRows(heap, cache, JSON_CACHE_ENABLED, app.sheet, run.dataType,
                           run.language)} :
          /\ data' = r.data
          /\ errors' = r.errors
          /\ statistics' = r.statistics
          /\ \E w \in {AnalyzeData(app, r, run.dataType, run.language)} :
                /\ app' = w.app
                /\ heap' = w.heap
                /\ cache' = w.cache
    /\ UNCHANGED <<objs, run, last, off, calls>>

\* testConnection and translateRows return; step 4 runs up to the next await
RowsTranslated(outcomes) ==
    /\ app.pc = "translate"
    /\ \E w \in {WriteTranslations(
                    completeStep(
                        [BatchProgress(app,
                             createBatches(filterRowsForTranslation(
                                 getRowsForTranslation(data), run.dataType).rowsToTranslate,
                                 run.dataType),
                             outcomes, 1)
                         EXCEPT !.translationData =
                             translateRows(getRowsForTranslation(data), run.dataType,
                                           outcomes)], 3),
                    heap, cache, data, run.dataType, run.language)} :
          /\ app' = w.app
          /\ heap' = w.heap
          /\ cache' = w.cache
    /\ UNCHANGED <<objs, data, errors, statistics, run, last, off, calls>>

\* writeLLMTranslations returns, its batchUpdate made when a row was
\* translated; the rest of step 4, then steps 5 and 6 up to the next await
TranslationsWriteReturns ==
    /\ app.pc = "writeLLM"
    /\ \E w \in {writeLLMTranslations(run.language.s,
                    SelectSeq(app.translationData.results, LAMBDA r : r.success),
                    run.dataType)} :
       \E a \in {[app EXCEPT !.writes =
                    IF w.updates = <<>> THEN @
                    ELSE Append(@, [kind |-> "llm", targets |-> w.targets,
                                    updates |-> w.updates,
                                    cancelled |-> app.cancelled])]} :
       \E g \in {GenerateJSON(
                    IF SelectSeq(app.translationData.results,
                                 LAMBDA t : t.success /\ "skipped" \in DOMAIN t) # <<>>
                    THEN completeStep(updateStepProgress(a, 4, 100), 4)
                    ELSE completeStep(a, 4),
                    heap, cache, data, run.dataType, run.language)} :
          /\ app' = g.app
          /\ heap' = g.heap
          /\ cache' = g.cache
    /\ UNCHANGED <<objs, data, errors, statistics, run, last, off, calls>>

\* writeJSONResults returns, its batchUpdate made; the workflow returns its
\* summary
JSONWriteReturns ==
    /\ app.pc = "writeJSON"
    /\ \E w \in {writeJSONResults(run.language.s,
                    SelectSeq(app.jsonResults, LAMBDA r : r.success))} :
          app' = handleTranslationSuccess(
                     completeStep([app EXCEPT !.writes =
                                      Append(@, [kind |-> "json", targets |-> w.targets,
                                                 updates |-> w.updates,
                                                 cancelled |-> app.cancelled])], 6),
                     Summary(app, data))
    /\ UNCHANGED <<heap, cache, objs, data, errors, statistics, run, last, off, calls>>

\* the setTimeout of handleTranslationSuccess fires: the results are shown
ShowResults ==
    /\ app.pc = "results"
    /\ app' = hide([app EXCEPT !.display = "results", !.pc = "idle"])
    /\ UNCHANGED <<heap, cache, objs, data, errors, statistics, run, last, off, calls>>

\* handleCancel, the user confirming
handleCancel ==
    /\ app.isTranslating
    /\ app' = hide([app EXCEPT !.isTranslating = FALSE, !.cancelled = TRUE,
                               !.display = "Translation cancelled."])
    /\ UNCHANGED <<heap, cache, objs, data, errors, statistics, run, last, off, calls>>

----------------------------------------------------------------------------
(* Spec: the handler, the parser and the builder called in any order *)

MaxCalls == 3
MaxRows == 2

En == S(Str("en"))
Fr == S(Str("fr"))

PipelineInputs == {S(TextEn), S(TextArray), N("42")}

PipelineRow(id, old_json) ==
    RawRow(S(Str(id)), S(Str("K")), S(Str("H")), EmptyStr, EmptyStr, EmptyStr,
           old_json, EmptyStr, EmptyStr, EmptyStr, EmptyStr, EmptyStr)

PipelineCells == {S(TextEn), S(TextJa)}

PipelineBatches == [1..MaxRows -> PipelineCells]

RowIds == <<"d1", "d2", "d3", "d4">>

BatchRows(cells) == [i \in 1..Len(cells) |-> PipelineRow(RowIds[i], cells[i])]

NamePayload == <<[k |-> Str("name"), v |-> S(Str("N"))]>>

Next ==
    \/ /\ calls < MaxCalls
       /\ \E x \in PipelineInputs : ParseCall(x)
    \/ /\ calls < MaxCalls
       /\ \E k \in 0..Len(objs), language \in {En, Fr} :
            MergeCall(k, language, NamePayload)
    \/ /\ calls < MaxCalls
       /\ \E cells \in PipelineBatches :
            ParseRowsCall(BatchRows(cells), "doctor", En)
    \/ /\ calls < MaxCalls
       /\ \E i \in 1..Len(data), language \in {En, Fr} : BuildCall(i, language)

Spec == Init /\ [][Next]_vars

----------------------------------------------------------------------------
(* SpecHandler: parse and merge on a wide range of arguments *)

HandlerMaxCalls == 2

HandlerNext ==
    \/ /\ calls < HandlerMaxCalls
       /\ \E x \in ParseInputs : ParseCall(x)
    \/ /\ calls < HandlerMaxCalls
       /\ \E k \in 0..Len(objs), language \in MergeLanguages, payload \in Payloads :
            MergeCall(k, language, payload)

SpecHandler == Init /\ [][HandlerNext]_vars

----------------------------------------------------------------------------
(* SpecCache: sequences of parse calls *)

CacheMaxCalls == 4

CacheInputs == {S(TextEn), S(TextEnSpaced), S(TextJa), S(TextEnFr), S(TextNotJSON),
                S(TextArray)}

CacheNext ==
    /\ calls < CacheMaxCalls
    /\ \E x \in CacheInputs : ParseCall(x)

SpecCache == Init /\ [][CacheNext]_vars

----------------------------------------------------------------------------
(* SpecValues: one row decoded, then its final values resolved *)

\* {"en":{"name":"J","history":"JH","description":"JD"}}
TextValues ==
    Braces1(Member("en",
        <<"{">> \o Member("name", Quoted("J")) \o <<",">>
                \o Member("history", Quoted("JH")) \o <<",">>
                \o Member("description", Quoted("JD")) \o <<"}">>))
\* {"en":{"name":1}}
TextNumericName == Braces1(Member("en", Braces1(Member("name", <<"1">>))))

Maybe(x) == {EmptyStr, S(x)}

ValuesRows ==
    {RawRow(S(Str("d1")), S(Str("K")), S(Str("H")), EmptyStr, old_name, old_content,
            old_json, manual_name, manual_content, llm_name, llm_content, EmptyStr) :
        old_name \in Maybe(<<"O">>), old_content \in Maybe(<<"<", "O", ">">>),
        manual_name \in Maybe(<<"M">>), manual_content \in Maybe(<<"M", "&", "C">>),
        llm_name \in Maybe(<<"L">>), llm_content \in Maybe(<<"LC">>),
        old_json \in {EmptyStr, S(TextValues), S(TextJa), S(TextNumericName)}}

ValuesNext ==
    \/ /\ calls = 0
       /\ \E row \in ValuesRows, dataType \in DataTypes :
            ParseRowsCall(<<row>>, dataType, En)
    \/ /\ last.op = "parseRows"
       /\ \E i \in 1..Len(data) : FinalValuesCall(i)
    \/ /\ last.op = "parseRows"
       /\ \E i \in 1..Len(data) : FinalValuesWithOldCall(i)
    \/ /\ last.op = "parseRows"
       /\ \E i \in 1..Len(data), language \in {En, S(Str("ja")), Fr} :
            BuildCall(i, language)

SpecValues == Init /\ [][ValuesNext]_vars

----------------------------------------------------------------------------
(* SpecDecode: one parseRows call on a batch of raw rows *)

MaxBatch == 3

Ja == S(Str("ja"))

\* {"en":{"name":"E","history":"EH"},"ja":{"name":"J","history":"JH"}}
TextEnJa == Braces2(Member("en", Braces2(Member("name", Quoted("E")),
                                          Member("history", Quoted("EH")))),
                    Member("ja", Braces2(Member("name", Quoted("J")),
                                          Member("history", Quoted("JH")))))

\* rows that differ in the Korean name, the old values and the MT values
FlagRows ==
    {RawRow(S(Str("d1")), kr_name, S(Str("H")), EmptyStr, old_name, old_content,
            EmptyStr, EmptyStr, EmptyStr, llm_name, llm_content, EmptyStr) :
        kr_name \in {S(<<"K">>), S(<<"K", "2">>)},
        old_name \in Maybe(<<"K">>), old_content \in Maybe(<<"H">>),
        llm_name \in Maybe(<<"L">>), llm_content \in Maybe(<<"LC">>)}

\* rows that differ in the language cell and in the old_json cell
LanguageRows ==
    {RawRow(S(Str("d1")), S(Str("K")), S(Str("H")), language, EmptyStr, EmptyStr,
            old_json, EmptyStr, EmptyStr, EmptyStr, EmptyStr, EmptyStr) :
        language \in {EmptyStr, En, Ja, Fr}, old_json \in {S(TextEnJa), S(TextJa)}}

\* the kinds of row of a batch: a complete row, a row without id, a row
\* without kr_name, and a row whose old_json cell is a number
RowKinds == {"complete", "noId", "noName", "numericJSON"}

\* the row of a kind at 1-based position i; the position is written to the
\* kr_history/kr_description cell
KindRow(kind, i) ==
    RawRow(IF kind = "noId" THEN EmptyStr ELSE S(Str(RowIds[i])),
           IF kind = "noName" THEN EmptyStr ELSE S(Str("K")),
           S(Str(RowIds[i])), EmptyStr, EmptyStr, EmptyStr,
           IF kind = "numericJSON" THEN N("42") ELSE S(TextEn),
           EmptyStr, EmptyStr, EmptyStr, EmptyStr, EmptyStr)

KindBatches == UNION {[1..n -> RowKinds] : n \in 1..MaxBatch}

KindRows(kinds) == [i \in 1..Len(kinds) |-> KindRow(kinds[i], i)]

\* a row with every cell filled, and its prefixes: what the sheet returns
\* when trailing cells are empty
FullRow ==
    RawRow(S(Str("d1")), S(Str("K")), S(Str("H")), En, S(Str("oK")), S(Str("oH")),
           S(TextEn), S(Str("M")), S(Str("MC")), S(Str("L")), S(Str("LC")), S(Str("U")))

NumColumns == 12

ShortRows == {SubSeq(FullRow, 1, n) : n \in 0..(NumColumns - 1)}

DecodeNext ==
    \/ /\ calls = 0
       /\ \E row \in FlagRows, dataType \in DataTypes :
            ParseRowsCall(<<row>>, dataType, En)
    \/ /\ calls = 0
       /\ \E row \in LanguageRows, dataType \in DataTypes, language \in {En, Ja} :
            ParseRowsCall(<<row>>, dataType, language)
    \/ /\ calls = 0
       /\ \E kinds \in KindBatches, dataType \in DataTypes :
            ParseRowsCall(KindRows(kinds), dataType, En)
    \/ /\ calls = 0
       /\ \E row \in ShortRows, dataType \in DataTypes :
            ParseRowsCall(<<row>>, dataType, En)
    \/ /\ last.op = "parseRows"
       /\ \E i \in 1..Len(data) : BuildCall(i, run.language)

SpecDecode == Init /\ [][DecodeNext]_vars

----------------------------------------------------------------------------
(* SpecBatch: parseRows, then mergeTranslations and buildBatchJSON as main.js
   chains them *)

BatchKinds == {"plain", "withMT", "withOld", "noName"}

BatchRow(kind, i) ==
    RawRow(S(Str(RowIds[i])),
           IF kind = "noName" THEN EmptyStr ELSE S(Str("K")),
           S(Str("H")), EmptyStr, EmptyStr, EmptyStr,
           IF kind = "withOld" THEN S(TextEn) ELSE EmptyStr,
           EmptyStr, EmptyStr,
           IF kind = "withMT" THEN S(Str("L")) ELSE EmptyStr,
           IF kind = "withMT" THEN S(Str("LC")) ELSE EmptyStr,
           EmptyStr)

BatchInputs == UNION {[1..n -> BatchKinds] : n \in 1..MaxRows}

BatchOf(kinds) == [i \in 1..Len(kinds) |-> BatchRow(kinds[i], i)]

\* what translateRows reports for a row: a translation of both fields, one of
\* the name only, an error, or nothing
TranslationKinds == {"both", "nameOnly", "error", "none"}

TranslationResult(row, kind, dataType) ==
    IF kind = "error"
    THEN [id |-> row.id, rowIndex |-> row.rowIndex, error |-> "error.message",
          success |-> FALSE]
    ELSE [id |-> row.id, rowIndex |-> row.rowIndex,
          translated |-> Tree(IF kind = "nameOnly"
                              THEN <<[k |-> Str("name"), v |-> S(Str("T"))]>>
                              ELSE <<[k |-> Str("name"), v |-> S(Str("T"))],
                                     [k |-> Str(ContentField(dataType)),
                                      v |-> S(Str("TC"))]>>),
          success |-> TRUE]

RECURSIVE TranslationResults(_, _, _, _)
TranslationResults(rows, kinds, i, dataType) ==
    IF i > Len(rows) THEN <<>>
    ELSE IF kinds[i] = "none" THEN TranslationResults(rows, kinds, i + 1, dataType)
    ELSE <<TranslationResult(rows[i], kinds[i], dataType)>>
         \o TranslationResults(rows, kinds, i + 1, dataType)

BatchNext ==
    \/ /\ calls = 0
       /\ \E kinds \in BatchInputs, dataType \in DataTypes :
            ParseRowsCall(BatchOf(kinds), dataType, En)
    \/ /\ last.op = "parseRows"
       /\ \E kinds \in [1..Len(data) -> TranslationKinds] :
            MergeTranslationsCall(TranslationResults(data, kinds, 1, run.dataType))
    \/ /\ last.op \in {"parseRows", "mergeTranslations"}
       /\ \E language \in {En, Fr} : BuildBatchCall(language)

SpecBatch == Init /\ [][BatchNext]_vars

----------------------------------------------------------------------------
(* SpecLanguages: an object is parsed, merged into, and asked for its
   languages *)

LanguageTexts == {TextEn, TextJa, TextEnFr, TextEnJa, TextEmptyObject, TextArray}

QueryLanguages == {En, Ja, Fr, S(Str("th")), S(Str("meta")), EmptyStr}

LanguagesNext ==
    \/ /\ calls = 0
       /\ \E x \in LanguageTexts : ParseCall(S(x))
    \/ /\ last.op = "parse"
       /\ \E k \in 0..Len(objs), language \in {En, Ja, Fr}, payload \in Payloads :
            MergeCall(k, language, payload)
    \/ /\ last.op \in {"parse", "merge"}
       /\ \E k \in 0..Len(objs) : AvailableLanguagesCall(k)
    \/ /\ last.op \in {"parse", "merge"}
       /\ \E k \in 0..Len(objs), language \in QueryLanguages :
            ExtractLanguageCall(k, language)

SpecLanguages == Init /\ [][LanguagesNext]_vars

----------------------------------------------------------------------------
(* SpecTranslate: a sheet is decoded and its rows are given to translateRows *)

MaxSheet == 3

\* new: no MT; changed: MT and old values that differ from the Korean text;
\* unchanged: MT and old values equal to it; mtNoOld: MT without old values;
\* nameOnly: no Korean content
SheetKinds == {"new", "changed", "unchanged", "mtNoOld", "nameOnly"}

SheetRow(kind, i) ==
    RawRow(S(Str(RowIds[i])), S(Str("K")),
           IF kind = "nameOnly" THEN EmptyStr ELSE S(Str("H")),
           EmptyStr,
           CASE kind = "changed" -> S(Str("oK")) [] kind = "unchanged" -> S(Str("K"))
             [] OTHER -> EmptyStr,
           IF kind \in {"changed", "unchanged"} THEN S(Str("H")) ELSE EmptyStr,
           EmptyStr, EmptyStr, EmptyStr,
           IF kind \in {"changed", "unchanged", "mtNoOld"} THEN S(Str("L")) ELSE EmptyStr,
           IF kind \in {"changed", "unchanged", "mtNoOld"} THEN S(Str("LC")) ELSE EmptyStr,
           EmptyStr)

Sheets == UNION {[1..n -> SheetKinds] : n \in 0..MaxSheet}

SheetOf(kinds) == [i \in 1..Len(kinds) |-> SheetRow(kinds[i], i)]

\* one outcome of the API call for each batch translateRows makes of rows
Outcomes(rows, dataType) ==
    [1..Len(createBatches(filterRowsForTranslation(rows, dataType).rowsToTranslate,
                          dataType)) -> {"ok", "fail"}]

TranslateNext ==
    \/ /\ calls = 0
       /\ \E kinds \in Sheets, dataType \in DataTypes :
            ParseRowsCall(SheetOf(kinds), dataType, En)
    \/ /\ last.op = "parseRows"
       /\ \E selected \in BOOLEAN :
            \E outcomes \in Outcomes(IF selected THEN getRowsForTranslation(data)
                                     ELSE data, run.dataType) :
                TranslateRowsCall(selected, outcomes)

SpecTranslate == Init /\ [][TranslateNext]_vars

----------------------------------------------------------------------------
(* SpecWriter: createNonContiguousUpdates on lists of row numbers, and the
   attempts of writeWithRetry *)

MaxWrites == 3

\* the sheet rows 2..5 in any order, repeated or not
RowNumberLists == UNION {[1..n -> {Num(r) : r \in 2..5}] : n \in 1..MaxWrites}

\* the value written for the k-th row of the list: one cell
CellValues(n) == [k \in 1..n |-> <<S(<<"v", NumText(k)>>)>>]

WriterNext ==
    \/ /\ calls = 0
       /\ \E rowIndices \in RowNumberLists, column \in {ColumnLetter("llm_name"), ColumnLetter("updated_json")} :
            CreateUpdatesCall(Str("en"), column, rowIndices, CellValues(Len(rowIndices)))
    \/ /\ calls = 0
       /\ RetryStart
    \/ \E succeeds \in BOOLEAN : RetryAttempt(succeeds)
    \/ RetryDelay

SpecWriter == Init /\ [][WriterNext]_vars

----------------------------------------------------------------------------
(* SpecWorkflow: the form is submitted, the workflow runs through its awaits,
   the user may cancel; one workflow runs at a time *)

MaxRuns == 2

\* a sheet row of the given kind whose id cell holds id
WorkflowRow(kind, id) ==
    [SheetRow(kind, 1) EXCEPT ![COL_id + 1] = id,
                              ![COL_kr_name + 1] = IF kind = "noName" THEN EmptyStr ELSE @]

\* sheets with text ids and with numeric ids: empty, one row, a row that is
\* not translated, a row that is rejected, and three rows in two batches
WorkflowSheets ==
    {[i \in 1..Len(kinds) |->
        WorkflowRow(kinds[i], IF numeric THEN N(NumText(i)) ELSE S(Str(RowIds[i])))] :
        kinds \in {<<>>, <<"new">>, <<"unchanged", "new">>, <<"noName", "new">>,
                   <<"new", "new", "new">>},
        numeric \in BOOLEAN}

WorkflowNext ==
    \/ /\ calls < MaxRuns
       /\ \E sheet \in WorkflowSheets, dataType \in DataTypes, authenticated \in BOOLEAN :
            FormSubmit(sheet, dataType, En, authenticated)
    \/ AwaitRejects
    \/ SheetLoaded
    \/ /\ app.pc = "translate"
       /\ \E outcomes \in Outcomes(getRowsForTranslation(data), run.dataType) :
            RowsTranslated(outcomes)
    \/ TranslationsWriteReturns
    \/ JSONWriteReturns
    \/ ShowResults
    \/ handleCancel

SpecWorkflow == Init /\ [][WorkflowNext]_vars

----------------------------------------------------------------------------
(* Claims *)

\* the row a getFinalValues call was made on
CalledRow == data[last.row]

\* the prefix_name or prefix_history/prefix_description field of a row
NameOf(r, prefix) ==
    CASE prefix = "manual" -> r.manual_name
      [] prefix = "llm" -> r.llm_name
      [] prefix = "old" -> r.old_name

ContentOf(r, prefix) ==
    IF run.dataType = "doctor"
    THEN CASE prefix = "manual" -> r.manual_history
           [] prefix = "llm" -> r.llm_history
           [] prefix = "old" -> r.old_history
    ELSE CASE prefix = "manual" -> r.manual_description
           [] prefix = "llm" -> r.llm_description
           [] prefix = "old" -> r.old_description

\* manual, else MT, else old, else the old_json_values member, else ""
FirstNonEmpty(manual, llm, old, values, key) ==
    IF manual # EmptyStr THEN manual
    ELSE IF llm # EmptyStr THEN llm
    ELSE IF old # EmptyStr THEN old
    ELSE IF Has(values, key) THEN Get(values, key)
    ELSE EmptyStr

\* C1: getFinalValues and getFinalValuesWithOld return, for the name and for
\* the content field of the row's data type, the manual value if it is
\* non-empty, else the MT value if non-empty, else the old value if non-empty,
\* else the old_json_values value if present, else the empty string.
C1_PriorityOrder ==
    last.op \in {"getFinalValues", "getFinalValuesWithOld"} =>
        LET r == CalledRow
            values == heap[r.old_json_values.r]
            content == ContentField(run.dataType)
        IN
        /\ last.ret.name =
              FirstNonEmpty(NameOf(r, "manual"), NameOf(r, "llm"), NameOf(r, "old"),
                            values, Str("name"))
        /\ last.ret[content] =
              FirstNonEmpty(ContentOf(r, "manual"), ContentOf(r, "llm"),
                            ContentOf(r, "old"), values, Str(content))

\* the name falls through to old_json while the content is decided by a manual
\* value that outranks a non-empty MT value and a non-empty old value
C1_Witness ==
    /\ last.op = "getFinalValuesWithOld"
    /\ NameOf(CalledRow, "manual") = EmptyStr
    /\ NameOf(CalledRow, "llm") = EmptyStr
    /\ NameOf(CalledRow, "old") = EmptyStr
    /\ last.ret.name = S(Str("J"))
    /\ ContentOf(CalledRow, "manual") = S(<<"M", "&amp;", "C">>)
    /\ ContentOf(CalledRow, "llm") # EmptyStr
    /\ ContentOf(CalledRow, "old") # EmptyStr
    /\ last.ret[ContentField(run.dataType)] = S(<<"M", "&amp;", "C">>)

\* the arguments and the result of the last merge call, as objects
MergeExisting == IF last.existing.t = "ref" THEN last.pre[last.existing.r] ELSE <<>>
MergePayload == last.pre[last.newData.r]
MergeResult == heap[last.ret.r]
MergeValid == last.op = "merge" /\ isValidLanguage(last.language)
MergeInvalid == last.op = "merge" /\ ~isValidLanguage(last.language)

\* C2: merge(existing, L, payload) with a valid language L leaves the entry of
\* every other language, and every other top-level key, exactly as it was in
\* existing, and the result has an entry for L.
C2_MergeKeepsOtherLanguages ==
    MergeValid =>
        /\ \A k \in KeySet(MergeExisting) \ {last.language.s} :
              /\ Has(MergeResult, k)
              /\ Get(MergeResult, k) = Get(MergeExisting, k)
              /\ Deep(heap, Get(MergeResult, k)) = Deep(last.pre, Get(MergeExisting, k))
        /\ Has(MergeResult, last.language.s)

\* a payload for en is merged into an object that holds ja and a foreign key
C2_Witness ==
    /\ MergeValid
    /\ last.language = S(Str("en"))
    /\ Has(MergeExisting, Str("ja"))
    /\ Has(MergeExisting, Str("meta"))
    /\ ~Has(MergeExisting, Str("en"))
    /\ MergePayload # <<>>
    /\ Deep(heap, Get(MergeResult, Str("ja"))) =
          Tree(<<[k |-> Str("name"), v |-> S(Str("J"))],
                 [k |-> Str("history"), v |-> S(Str("JH"))]>>)

\* C3: merge never mutates its existing argument, for valid and for invalid
\* languages: after the call existing, and the entry existing[language], have
\* the keys and values they had before.
C3_MergeDoesNotMutate ==
    (last.op = "merge" /\ last.existing.t = "ref") =>
        /\ heap[last.existing.r] = last.pre[last.existing.r]
        /\ Deep(heap, last.existing) = Deep(last.pre, last.existing)

\* existing already has an entry for the merged language, and the payload
\* changes a value of it in the result
C3_Witness ==
    /\ MergeValid
    /\ last.existing.t = "ref"
    /\ Has(MergeExisting, last.language.s)
    /\ Deep(heap, last.ret) # Deep(heap, last.existing)

\* C4: merge with a language outside the configured set is a no-op: the
\* returned object has exactly the keys and values of existing, and no key for
\* the invalid language is added.
C4_InvalidLanguageNoOp ==
    MergeInvalid =>
        /\ ~last.thrown
        /\ MergeResult = MergeExisting
        /\ Deep(heap, last.ret) = Tree([j \in 1..Len(MergeExisting) |->
              [k |-> MergeExisting[j].k, v |-> Deep(last.pre, MergeExisting[j].v)]])
        /\ KeySet(MergeResult) = KeySet(MergeExisting)

\* the language fr is merged into an object that holds en only
C4_Witness ==
    /\ MergeInvalid
    /\ last.language = S(Str("fr"))
    /\ KeySet(MergeExisting) = {Str("en")}
    /\ MergePayload # <<>>
    /\ KeySet(MergeResult) = {Str("en")}

\* existing[L] as merge reads it: {} when it is absent
MergeOldEntry ==
    IF Truthy(Get(MergeExisting, last.language.s))
    THEN OwnMembers(last.pre, Get(MergeExisting, last.language.s))
    ELSE <<>>
MergeNewEntry == heap[Get(MergeResult, last.language.s).r]

\* C5: for a valid language L the L entry of the result is the shallow union
\* of existing[L] (or {}) and payload: every key of payload has payload's
\* value, every key of existing[L] not in payload keeps its value, and there
\* is no other key.
C5_EntryIsShallowUnion ==
    MergeValid =>
        /\ Get(MergeResult, last.language.s).t = "ref"
        /\ \A k \in KeySet(MergePayload) : Get(MergeNewEntry, k) = Get(MergePayload, k)
        /\ \A k \in KeySet(MergeOldEntry) \ KeySet(MergePayload) :
              Get(MergeNewEntry, k) = Get(MergeOldEntry, k)
        /\ KeySet(MergeNewEntry) = KeySet(MergeOldEntry) \cup KeySet(MergePayload)

\* the payload overrides name and leaves the key extra of existing.en alone
C5_Witness ==
    /\ MergeValid
    /\ last.language = S(Str("en"))
    /\ Get(MergeOldEntry, Str("name")) = S(Str("E"))
    /\ Get(MergeOldEntry, Str("extra")) = S(Str("k"))
    /\ Get(MergePayload, Str("name")) = S(Str("N"))
    /\ Get(MergeNewEntry, Str("name")) = S(Str("N"))
    /\ Get(MergeNewEntry, Str("extra")) = S(Str("k"))

\* JSON.parse accepts the text and its value is a non-null, non-array object
IsObjectText(x) ==
    /\ x.t = "str"
    /\ JSONParse(x.s).ok
    /\ JSONParse(x.s).tree.t = "obj"

\* C6: parse returns {} for empty or whitespace-only text, for null, for text
\* that is not valid JSON and for valid JSON whose value is an array, a
\* primitive or null; for the text of a JSON object it returns that object.
C6_ParseRobust ==
    (last.op = "parse" /\ last.arg.t \in {"str", "null"}) =>
        /\ ~last.thrown
        /\ last.ret.t = "ref"
        /\ Deep(heap, last.ret) =
              IF IsObjectText(last.arg) THEN JSONParse(last.arg.s).tree ELSE Tree(<<>>)

\* "[1,2,3]" has been parsed to {}
C6_Witness ==
    /\ last.op = "parse"
    /\ last.arg = S(TextArray)
    /\ JSONParse(TextArray).ok
    /\ heap[last.ret.r] = <<>>

\* an object text has been parsed to its object
C6_WitnessObject ==
    /\ last.op = "parse"
    /\ last.arg = S(TextEnSpaced)
    /\ Deep(heap, last.ret) =
          Tree(<<[k |-> Str("en"),
                  v |-> Tree(<<[k |-> Str("name"), v |-> S(Str("x"))]>>)]>>)

\* C7: the handler never throws: for every value that can reach parse from an
\* old_json cell (a string, an empty cell, null, undefined, a number, a
\* boolean) parse returns an object.
C7_ParseNeverThrows ==
    last.op = "parse" => (~last.thrown /\ last.ret.t = "ref")

\* the entry for text x is in the cache c
Cached(c, x) == x.t = "str" /\ Has(c, x.s)

\* what the cache holds: results of successful parses of object texts
CacheHoldsParsedObjects ==
    \A i \in 1..Len(cache) :
        /\ IsObjectText(S(cache[i].k))
        /\ cache[i].v.t = "ref"
        /\ Deep(heap, cache[i].v) = JSONParse(cache[i].k).tree
        /\ \A j \in 1..Len(cache) : cache[j].k = cache[i].k => j = i

\* how a parse call changes the cache: a hit and an uncacheable result leave
\* it alone, a new entry goes last, and it displaces the first entry when the
\* cache was full
CacheStep ==
    last'.op = "parse" =>
        IF Cached(cache, last'.arg) \/ ~IsObjectText(last'.arg)
        THEN cache' = cache
        ELSE cache' = Append(IF Len(cache) >= MAX_SIZE THEN Tail(cache) ELSE cache,
                             [k |-> last'.arg.s, v |-> last'.ret])

\* C8: after any sequence of parse calls the cache holds at most MAX_SIZE
\* entries, all of them successfully parsed objects; an entry added to a full
\* cache displaces the earliest inserted one, and a hit does not change the
\* order.
C8_CacheBoundedFIFO ==
    /\ [](Len(cache) <= MAX_SIZE /\ CacheHoldsParsedObjects)
    /\ [][CacheStep]_vars

\* a new text was parsed while the cache was full: the first entry is gone,
\* the others have moved up and the new entry is last
C8_Witness ==
    /\ last.op = "parse"
    /\ Len(last.preCache) = MAX_SIZE
    /\ Len(cache) = MAX_SIZE
    /\ ~Cached(last.preCache, last.arg)
    /\ cache[Len(cache)].k = last.arg.s
    /\ ~Has(cache, last.preCache[1].k)
    /\ \A i \in 1..(MAX_SIZE - 1) : cache[i] = last.preCache[i + 1]

\* a decoded row with its objects written out
RowValue(h, r) ==
    [r EXCEPT !.old_json_parsed = Deep(h, @), !.old_json_values = Deep(h, @)]

\* C9: the parse cache is a pure optimization: every value returned by parse,
\* merge, parseRows and buildUpdatedJSON equals the value the same sequence of
\* calls returns with the cache disabled.
C9_CacheIsPureOptimization ==
    /\ last.op \in {"parse", "merge", "build"} =>
          /\ last.thrown = off.thrown
          /\ Deep(heap, last.ret) = Deep(off.heap, off.ret)
    /\ Len(data) = Len(off.data)
    /\ \A i \in 1..Len(data) : RowValue(heap, data[i]) = RowValue(off.heap, off.data[i])
    /\ errors = off.errors
    /\ Len(objs) = Len(off.objs)
    /\ \A k \in 1..Len(objs) : Deep(heap, objs[k]) = Deep(off.heap, off.objs[k])

\* buildUpdatedJSON ran on a row whose old_json came out of the cache
C9_Witness ==
    /\ last.op = "build"
    /\ isValidLanguage(last.language)
    /\ \E i \in 1..Len(cache) : cache[i].v = data[last.row].old_json_parsed
    /\ \E i \in 1..Len(data) : i # last.row
          /\ data[i].old_json_parsed = data[last.row].old_json_parsed
    /\ off.data[1].old_json_parsed # off.data[2].old_json_parsed
    /\ Deep(heap, last.ret) = Deep(off.heap, off.ret)

\* the heap cells reachable from a value
RECURSIVE Reach(_, _)
Reach(h, v) ==
    IF v.t # "ref" THEN {}
    ELSE {v.r} \cup UNION {Reach(h, h[v.r][j].v) : j \in 1..Len(h[v.r])}

CacheCells == UNION {Reach(heap, cache[i].v) : i \in 1..Len(cache)}

\* C10: each decoded row owns an independent copy of its multi-language
\* object: no two rows of a batch share old_json_parsed, and the object
\* buildUpdatedJSON returns for a row shares no part with another row's object
\* or with the cache.
C10_RowsOwnTheirObjects ==
    /\ \A i, j \in 1..Len(data) :
          i # j => Reach(heap, data[i].old_json_parsed)
                     \cap Reach(heap, data[j].old_json_parsed) = {}
    /\ last.op = "build" =>
          /\ Reach(heap, last.ret) \cap CacheCells = {}
          /\ \A j \in 1..Len(data) :
                j # last.row =>
                    Reach(heap, last.ret) \cap Reach(heap, data[j].old_json_parsed) = {}

\* the Korean content of a decoded row: kr_history or kr_description
KrContentOf(r) == IF run.dataType = "doctor" THEN r.kr_history ELSE r.kr_description

NoMT(r) == NameOf(r, "llm") = EmptyStr /\ ContentOf(r, "llm") = EmptyStr
NoOld(r) == NameOf(r, "old") = EmptyStr /\ ContentOf(r, "old") = EmptyStr
KoreanUnchanged(r) == r.kr_name = r.old_name /\ KrContentOf(r) = ContentOf(r, "old")

\* C11: for every decoded row needsTranslation = NOT hasLLMTranslation OR
\* (hasOldValues AND contentChanged): a row with no MT value needs
\* translation, a row with an MT value and old values equal to the Korean name
\* and content does not, and one whose kr_name differs from old_name does.
C11_NeedsTranslation ==
    \A k \in 1..Len(data) :
        LET r == data[k] IN
        /\ r.hasLLMTranslation = ~NoMT(r)
        /\ r.hasOldValues = ~NoOld(r)
        /\ r.contentChanged = ~KoreanUnchanged(r)
        /\ r.needsTranslation =
              (~r.hasLLMTranslation \/ (r.hasOldValues /\ r.contentChanged))
        /\ NoMT(r) => r.needsTranslation
        /\ (~NoMT(r) /\ ~NoOld(r) /\ KoreanUnchanged(r)) => ~r.needsTranslation
        /\ (~NoMT(r) /\ ~NoOld(r) /\ r.kr_name # r.old_name) => r.needsTranslation

\* a row with an MT value whose kr_name is its old_name with one more
\* character, and whose content is unchanged, needs translation
C11_Witness ==
    /\ last.op = "parseRows"
    /\ Len(data) = 1
    /\ ~NoMT(data[1])
    /\ data[1].old_name = S(<<"K">>)
    /\ data[1].kr_name = S(<<"K", "2">>)
    /\ KrContentOf(data[1]) = ContentOf(data[1], "old")
    /\ data[1].needsTranslation

\* C12: a decoded row that has no old values is treated as changed and is
\* marked as needing translation, whether or not it has an MT value.
C12_NoOldValuesNeedsTranslation ==
    \A k \in 1..Len(data) : NoOld(data[k]) => data[k].needsTranslation

\* the cell of a raw row at a 0-based column
Cell(row, col) == IF col < Len(row) THEN row[col + 1] ELSE EmptyStr

\* the raw row has an empty id or an empty kr_name
Incomplete(row) == Cell(row, COL_id) = EmptyStr \/ Cell(row, COL_kr_name) = EmptyStr

\* the decoded row has the id, the kr_name and the Korean content of the raw row
DecodedFrom(r, row) ==
    /\ r.id = Cell(row, COL_id)
    /\ r.kr_name = sanitizeInput(Cell(row, COL_kr_name))
    /\ KrContentOf(r) = sanitizeInput(Cell(row, COL_kr_content))

\* the error entries whose row number is n
ErrorsAt(n) == {e \in 1..Len(errors) : errors[e].row = n}

\* C13: a raw row whose id or kr_name is empty is excluded from the decoded
\* rows and appears in the error list exactly once, with row number = its
\* 0-based position among the data rows + 2.
C13_RowRejection ==
    last.op = "parseRows" =>
        \A i \in 1..Len(last.rows) :
            Incomplete(last.rows[i]) =>
                /\ Cardinality(ErrorsAt((i - 1) + 2)) = 1
                /\ \A e \in ErrorsAt((i - 1) + 2) : errors[e].data = last.rows[i]
                /\ \A k \in 1..Len(data) : ~DecodedFrom(data[k], last.rows[i])

\* of three rows the second has no id and the third no kr_name: the errors
\* are those of sheet rows 3 and 4 and the first row alone is decoded
C13_Witness ==
    /\ last.op = "parseRows"
    /\ Len(last.rows) = 3
    /\ ~Incomplete(last.rows[1])
    /\ Cell(last.rows[2], COL_id) = EmptyStr
    /\ Cell(last.rows[3], COL_kr_name) = EmptyStr
    /\ Len(errors) = 2
    /\ errors[1].row = 3
    /\ errors[2].row = 4
    /\ Len(data) = 1
    /\ DecodedFrom(data[1], last.rows[1])

\* the 1-based positions of the input rows that have no error entry, ascending
Passed ==
    SelectSeq([i \in 1..Len(last.rows) |-> i], LAMBDA i : ErrorsAt(i + 1) = {})

\* the raw row has an id, a kr_name and an old_json cell that is a string
Decodable(row) == ~Incomplete(row) /\ Cell(row, COL_old_json).t = "str"

\* C14: every input row ends up in exactly one of the decoded rows or the
\* errors, the decoded rows are in input order, validRows is the number of
\* decoded rows and totalRows = validRows + number of errors; a failing row
\* never prevents a later row from being decoded.
C14_BatchIsolation ==
    last.op = "parseRows" =>
        /\ Len(data) + Len(errors) = Len(last.rows)
        /\ \A e \in 1..Len(errors) : errors[e].row \in 2..(Len(last.rows) + 1)
        /\ \A i \in 1..Len(last.rows) : Cardinality(ErrorsAt(i + 1)) <= 1
        /\ Len(Passed) = Len(data)
        /\ \A k \in 1..Len(data) : DecodedFrom(data[k], last.rows[Passed[k]])
        /\ statistics.validRows = Len(data)
        /\ statistics.totalRows = statistics.validRows + Len(errors)
        /\ \A i \in 1..Len(last.rows) : Decodable(last.rows[i]) => ErrorsAt(i + 1) = {}

\* the first row has no id, the second throws in parse, the third is decoded
C14_Witness ==
    /\ last.op = "parseRows"
    /\ Len(last.rows) = 3
    /\ Cell(last.rows[1], COL_id) = EmptyStr
    /\ Cell(last.rows[2], COL_old_json) = N("42")
    /\ Decodable(last.rows[3])
    /\ Len(errors) = 2
    /\ Len(data) = 1
    /\ DecodedFrom(data[1], last.rows[3])
    /\ statistics.totalRows = 3

\* what old_json_values holds when it is extracted from the entry of a language:
\* the name and the content of the entry, or nothing when there is no entry
ValuesOfEntry(h, entry, values) ==
    IF Truthy(entry)
    THEN /\ Get(values, Str("name")) = Or(GetProp(h, entry, Str("name")), EmptyStr)
         /\ Get(values, Str(ContentField(run.dataType))) =
               Or(GetProp(h, entry, Str(ContentField(run.dataType))), EmptyStr)
    ELSE values = <<>>

\* C15: for every decoded row old_json_values is extracted from
\* old_json_parsed with the expected language of the run as the key, not the
\* language recorded in the row's language cell.
C15_OldValuesUseExpectedLanguage ==
    \A k \in 1..Len(data) :
        ValuesOfEntry(heap, GetProp(heap, data[k].old_json_parsed, run.language.s),
                      heap[data[k].old_json_values.r])

\* the row a build call was made on, its old_json_parsed (or {}) before the
\* call, and the object the call returned
BuiltRow == data[last.row]
BuildBase ==
    IF Truthy(BuiltRow.old_json_parsed) THEN last.pre[BuiltRow.old_json_parsed.r] ELSE <<>>
BuildResult == heap[last.ret.r]
BuildOldEntry ==
    IF Truthy(Get(BuildBase, last.language.s))
    THEN OwnMembers(last.pre, Get(BuildBase, last.language.s))
    ELSE <<>>
BuildEntry == heap[Get(BuildResult, last.language.s).r]
PayloadKeys == {Str("id"), Str("name"), Str(ContentField(run.dataType))}

\* the priority-chain final value of the name and of the content of a row
FinalName(r) ==
    FirstNonEmpty(NameOf(r, "manual"), NameOf(r, "llm"), NameOf(r, "old"),
                  heap[r.old_json_values.r], Str("name"))
FinalContent(r) ==
    FirstNonEmpty(ContentOf(r, "manual"), ContentOf(r, "llm"), ContentOf(r, "old"),
                  heap[r.old_json_values.r], Str(ContentField(run.dataType)))

\* C16: buildUpdatedJSON(row, kind, language) is merge(row.old_json_parsed or
\* {}, language, {id, name, history|description}) with the priority-chain
\* final values of the row: for a valid language the entry of the language
\* carries these three values, under history for a doctor and description for
\* a hospital, on top of what the entry held, and the other keys are kept; for
\* an invalid language the result is the base.
C16_BuildIsMerge ==
    last.op = "build" =>
        IF isValidLanguage(last.language)
        THEN /\ Get(BuildEntry, Str("id")) = BuiltRow.id
             /\ Get(BuildEntry, Str("name")) = FinalName(BuiltRow)
             /\ Get(BuildEntry, Str(ContentField(run.dataType))) = FinalContent(BuiltRow)
             /\ KeySet(BuildEntry) = KeySet(BuildOldEntry) \cup PayloadKeys
             /\ \A k \in KeySet(BuildOldEntry) \ PayloadKeys :
                   Get(BuildEntry, k) = Get(BuildOldEntry, k)
             /\ KeySet(BuildResult) = KeySet(BuildBase) \cup {last.language.s}
             /\ \A k \in KeySet(BuildBase) \ {last.language.s} :
                   Get(BuildResult, k) = Get(BuildBase, k)
        ELSE BuildResult = BuildBase

\* a hospital row is built for en: the entry takes the manual description and
\* the name of old_json, and keeps the history the old en entry held
C16_Witness ==
    /\ last.op = "build"
    /\ run.dataType = "hospital"
    /\ last.language = En
    /\ BuiltRow.manual_description = S(<<"M", "&amp;", "C">>)
    /\ Get(BuildEntry, Str("description")) = S(<<"M", "&amp;", "C">>)
    /\ NameOf(BuiltRow, "manual") = EmptyStr
    /\ NameOf(BuiltRow, "llm") = EmptyStr
    /\ NameOf(BuiltRow, "old") = EmptyStr
    /\ Get(BuildEntry, Str("name")) = S(Str("J"))
    /\ Get(BuildOldEntry, Str("history")) = S(Str("JH"))
    /\ Get(BuildEntry, Str("history")) = S(Str("JH"))
    /\ Get(BuildEntry, Str("id")) = S(Str("d1"))

\* a build call follows a build call on the same row and language
BuiltAgain ==
    /\ last.op = "build"
    /\ last'.op = "build"
    /\ last'.row = last.row
    /\ last'.language = last.language

\* what a build call leaves alone: the rows and the objects they hold
BuildKeepsRows ==
    /\ data' = data
    /\ \A i \in 1..Len(data) : RowValue(heap', data[i]) = RowValue(heap, data[i])

\* C17: buildUpdatedJSON is repeatable: two calls on the same row, entity kind
\* and language, with nothing in between, return equal objects and the same
\* serialized JSON text, and a call does not change the row or its
\* old_json_parsed.
C17_BuildRepeatable ==
    [][/\ last'.op = "build" => BuildKeepsRows
       /\ BuiltAgain =>
             /\ Deep(heap', last'.ret) = Deep(heap, last.ret)
             /\ last'.string = last.string]_vars

\* the same row has been built twice after parseRows: the caller holds two
\* distinct objects with equal content, and the text is that of the second
C17_Witness ==
    /\ last.op = "build"
    /\ calls = 3
    /\ Len(data) > 0
    /\ Len(objs) = 2
    /\ objs[1] # objs[2]
    /\ GetProp(heap, GetProp(heap, objs[1], Str("en")), Str("id")) = S(Str("d1"))
    /\ Deep(heap, objs[1]) = Deep(heap, objs[2])
    /\ last.string = stringify(heap, objs[1])
    /\ Len(last.string.s) > 2

\* what buildJSON gives for the i-th row of the batch when called on it alone
BuiltAlone(i) ==
    buildJSON(last.pre, last.preCache, last.rows[i], run.dataType, last.language)

\* the batch entry res reports what the call on the row alone, a, gave
ReportsRow(res, a, row) ==
    /\ res.id = row.id
    /\ res.rowIndex = row.rowIndex
    /\ res.success = ~a.thrown
    /\ IF a.thrown
       THEN "error" \in DOMAIN res /\ res.json = EmptyStr
       ELSE res.json = a.string /\ Deep(heap, res.object) = Deep(a.heap, a.object)

TranslationsOf(row) ==
    {t \in 1..Len(last.translations) : last.translations[t].id = row.id}

\* m is row with the MT name and content replaced from the translation tr
Replaced(m, row, tr) ==
    /\ DOMAIN m = DOMAIN row
    /\ m.llm_name = Or(TranslationField(tr, "name"), EmptyStr)
    /\ m["llm_" \o ContentField(run.dataType)] =
          Or(TranslationField(tr, ContentField(run.dataType)), EmptyStr)
    /\ \A f \in DOMAIN row \ {"llm_name", "llm_" \o ContentField(run.dataType)} :
          m[f] = row[f]

\* C19: mergeTranslations returns a list of the same length and order as the
\* original rows; a row whose id has a translation gets its MT name and content
\* replaced by it and keeps every other field, a row without one (or with only
\* an error result) is returned unchanged, and the original rows are not
\* modified.
C19_MergeTranslations ==
    last.op = "mergeTranslations" =>
        /\ Len(last.merged) = Len(last.rows)
        /\ data = last.rows
        /\ \A i \in 1..Len(last.rows) :
              \/ /\ \A t \in TranslationsOf(last.rows[i]) :
                        "translated" \notin DOMAIN last.translations[t]
                 /\ last.merged[i] = last.rows[i]
              \/ \E t \in TranslationsOf(last.rows[i]) :
                    /\ "translated" \in DOMAIN last.translations[t]
                    /\ Replaced(last.merged[i], last.rows[i],
                                last.translations[t].translated)

C19_Witness ==
    /\ last.op = "mergeTranslations"
    /\ Len(last.rows) = 2
    /\ Len(last.translations) = 2
    /\ "translated" \in DOMAIN last.translations[1]
    /\ "error" \in DOMAIN last.translations[2]
    /\ last.rows[1].llm_name = S(Str("L"))
    /\ last.merged[1].llm_name = S(Str("T"))
    /\ last.merged[2] = last.rows[2]

\* the top-level members of the object the last query was asked about
QueryMembers == OwnMembers(heap, last.json)

\* the keys of the object of the last query that are not configured languages
UnknownKeys == {k \in KeySet(QueryMembers) : ~isValidLanguage(S(k))}

\* the strings getAvailableLanguages returned
Reported == {last.ret.a[i] : i \in 1..Len(last.ret.a)}

\* C20: a top-level key that is not a configured language is kept by merge,
\* getAvailableLanguages returns exactly the keys of the object that are
\* configured languages, and extractLanguage returns null for a language
\* outside the configured set even when the object has that key.
C20_UnknownKeysIgnored ==
    /\ last.op = "merge" /\ ~last.thrown =>
          \A k \in KeySet(MergeExisting) :
              ~isValidLanguage(S(k)) =>
                  /\ Has(MergeResult, k)
                  /\ Deep(heap, Get(MergeResult, k)) = Deep(last.pre, Get(MergeExisting, k))
    /\ last.op = "getAvailableLanguages" =>
          /\ Reported = {S(k) : k \in KeySet(QueryMembers) \ UnknownKeys}
          /\ Len(last.ret.a) = Cardinality(Reported)
    /\ last.op = "extractLanguage" /\ ~isValidLanguage(last.language) =>
          last.ret = Null

\* the languages of a merged object that still holds a foreign key are asked for
C20_Witness ==
    /\ last.op = "getAvailableLanguages"
    /\ Len(objs) = 2
    /\ last.json = objs[2]
    /\ UnknownKeys # {}
    /\ Cardinality(Reported) = 2

\* row with the empty string in every column it lacks
Padded(row) == row \o [i \in 1..(NumColumns - Len(row)) |-> EmptyStr]

\* the one row of the last parseRows, when it is shorter than the column layout
ShortRowParsed ==
    /\ last.op = "parseRows"
    /\ Len(last.rows) = 1
    /\ Len(last.rows[1]) < NumColumns

\* what parseRows gives for the padded row from the same heap and cache
PaddedOutcome ==
    parseRows(last.pre, last.preCache, JSON_CACHE_ENABLED, <<Padded(last.rows[1])>>,
              run.dataType, run.language)

\* C22: a raw row shorter than 12 cells is decoded as if every missing
\* trailing column held the empty string; it is accepted if and only if its
\* id and kr_name are non-empty, and never rejected for being short.
C22_ShortRowDecoded ==
    ShortRowParsed =>
        /\ Len(data) + Len(errors) = 1
        /\ Len(data) = 1 <=> ~Incomplete(Padded(last.rows[1]))
        /\ data = PaddedOutcome.data
        /\ statistics = PaddedOutcome.statistics
        /\ \A e \in 1..Len(errors) :
              /\ errors[e].error = PaddedOutcome.errors[e].error
              /\ errors[e].row = 2

\* a row of only id and kr_name is accepted with its other fields empty
C22_Witness ==
    /\ ShortRowParsed
    /\ Len(last.rows[1]) = 2
    /\ Len(data) = 1
    /\ data[1].old_name = EmptyStr
    /\ data[1].llm_name = EmptyStr
    /\ data[1].old_json = EmptyStr
    /\ data[1].language = En

\* the row ids of a list of rows or results
IdsOf(list) == {list[i].id : i \in 1..Len(list)}

\* the results of the last translateRows that carry the id
ResultsOf(id) ==
    {r \in 1..Len(last.translationData.results) :
        last.translationData.results[r].id = id}

\* the rows of batch b of the last translateRows
BatchOfCall(b) == createBatches(last.filtered.rowsToTranslate, run.dataType)[b]

\* batch b of the last translateRows called the API and the call failed
BatchFailed(b) == last.outcomes[b] = "fail" /\ CallsAPI(BatchOfCall(b))

\* the ids of the rows in the batches of the last translateRows that failed
FailedIds == UNION {IdsOf(BatchOfCall(b)) : b \in {c \in DOMAIN last.outcomes : BatchFailed(c)}}

\* C25: translateRows returns exactly one result per input row whichever
\* batches fail: the rows of a failed batch, and only they, get a result with
\* success false, and translated + skipped + failed = total.
C25_OneResultPerRow ==
    last.op = "translateRows" =>
        /\ Len(last.translationData.results) = Len(last.rows)
        /\ \A i \in 1..Len(last.rows) : Cardinality(ResultsOf(last.rows[i].id)) = 1
        /\ \A r \in 1..Len(last.translationData.results) :
              ~last.translationData.results[r].success
                  <=> last.translationData.results[r].id \in FailedIds
        /\ last.translationData.statistics.total = Len(last.rows)
        /\ last.translationData.statistics.translated
           + last.translationData.statistics.skipped
           + last.translationData.statistics.failed
           = last.translationData.statistics.total

\* the first batch fails and the second is still translated
C25_Witness ==
    /\ last.op = "translateRows"
    /\ Len(last.outcomes) = 2
    /\ BatchFailed(1) /\ ~BatchFailed(2)
    /\ last.translationData.statistics.failed = 2
    /\ last.translationData.statistics.translated = 1
    /\ last.translationData.results[3].success

\* C26: every row for which the parser set needsTranslation is placed in
\* rowsToTranslate by filterRowsForTranslation, so no row selected by
\* getRowsForTranslation is skipped.
C26_FilterAgreesWithParser ==
    last.op = "translateRows" =>
        \A i \in 1..Len(last.rows) :
            last.rows[i].needsTranslation =>
                /\ last.rows[i].id \in IdsOf(last.filtered.rowsToTranslate)
                /\ last.rows[i].id \notin IdsOf(last.filtered.skippedRows)

\* a row with MT whose Korean text changed is kept while another row is skipped
C26_Witness ==
    /\ last.op = "translateRows"
    /\ \E i \in 1..Len(last.rows) :
          /\ last.rows[i].needsTranslation
          /\ last.rows[i].hasLLMTranslation
          /\ last.rows[i].id \in IdsOf(last.filtered.rowsToTranslate)
    /\ \E i \in 1..Len(last.rows) :
          /\ ~last.rows[i].needsTranslation
          /\ last.rows[i].id \in IdsOf(last.filtered.skippedRows)

\* the number a decimal text stands for
NumberOf(text) == CHOOSE n \in 0..12 : NumText(n) = text

\* the rows a range text names, in order: 'sheet'!C5 or 'sheet'!C5:C7
RowsOfRange(range, sheetName) ==
    IF Len(range) = Len(sheetName) + 4
    THEN <<NumberOf(range[Len(range)])>>
    ELSE [k \in 1..(NumberOf(range[Len(range)]) - NumberOf(range[Len(sheetName) + 4]) + 1) |->
            NumberOf(range[Len(sheetName) + 4]) + k - 1]

RECURSIVE AllRows(_, _, _)
AllRows(updates, sheetName, u) ==
    IF u > Len(updates) THEN <<>>
    ELSE RowsOfRange(updates[u].range, sheetName) \o AllRows(updates, sheetName, u + 1)

RECURSIVE AllValues(_, _)
AllValues(updates, u) ==
    IF u > Len(updates) THEN <<>>
    ELSE updates[u].values \o AllValues(updates, u + 1)

\* the text of a range names the sheet and the column
WellFormedRange(range, sheetName, column) ==
    /\ Len(range) \in {Len(sheetName) + 4, Len(sheetName) + 7}
    /\ SubSeq(range, 1, Len(sheetName) + 3) = <<"'">> \o sheetName \o <<"'!", column>>
    /\ Len(range) = Len(sheetName) + 7 =>
          /\ SubSeq(range, Len(sheetName) + 5, Len(sheetName) + 6) = <<":", column>>
          /\ NumberOf(range[Len(range)]) > NumberOf(range[Len(sheetName) + 4])

\* C29: for a non-empty list of row numbers and as many values,
\* createNonContiguousUpdates returns updates whose ranges, in order, cover
\* every given row exactly once, each range a run of consecutive row numbers of
\* the input, and whose values in order are the input values, each with its row.
C29_UpdatesCoverRows ==
    last.op = "createNonContiguousUpdates" =>
        /\ \A u \in 1..Len(last.updates) :
              /\ WellFormedRange(last.updates[u].range, last.sheetName, last.column)
              /\ Len(last.updates[u].values)
                 = Len(RowsOfRange(last.updates[u].range, last.sheetName))
        /\ AllRows(last.updates, last.sheetName, 1)
           = [k \in 1..Len(last.rowIndices) |-> last.rowIndices[k].i]
        /\ AllValues(last.updates, 1) = last.values

\* rows 2, 3 and 5: one range of two rows and one of a single row
C29_Witness ==
    /\ last.op = "createNonContiguousUpdates"
    /\ last.rowIndices = <<Num(2), Num(3), Num(5)>>
    /\ Len(last.updates) = 2
    /\ Len(last.updates[1].values) = 2

\* the calls of the write function in the trace of writeWithRetry
CallsIn(trace) == {k \in 1..Len(trace) : "call" \in DOMAIN trace[k]}

\* C24: writeWithRetry calls the write function at most RETRY_ATTEMPTS times,
\* returns the result of the first attempt that succeeds and makes no attempt
\* after it, throws the error of the last attempt if all fail, and waits
\* RETRY_DELAY * 2^(attempt-1) between consecutive attempts and not after the
\* final failed attempt.
C24_RetryDiscipline ==
    last.op = "writeWithRetry" =>
        /\ Cardinality(CallsIn(last.trace)) <= RETRY_ATTEMPTS
        /\ \A k \in 1..Len(last.trace) :
              IF k % 2 = 1
              THEN /\ "call" \in DOMAIN last.trace[k]
                   /\ last.trace[k].call = (k + 1) \div 2
                   /\ last.trace[k].ok => k = Len(last.trace)
              ELSE /\ "delay" \in DOMAIN last.trace[k]
                   /\ last.trace[k].delay = RETRY_DELAY * Pow2((k \div 2) - 1)
        /\ last.pc = "returned" =>
              /\ last.trace[Len(last.trace)].ok
              /\ last.ret = S(<<"result", NumText(last.trace[Len(last.trace)].call)>>)
        /\ last.pc = "thrown" =>
              /\ Cardinality(CallsIn(last.trace)) = RETRY_ATTEMPTS
              /\ "call" \in DOMAIN last.trace[Len(last.trace)]
              /\ last.ret = S(<<"error", NumText(RETRY_ATTEMPTS)>>)
        /\ last.pc \in {"returned", "thrown"} <=>
              /\ Len(last.trace) > 0
              /\ "call" \in DOMAIN last.trace[Len(last.trace)]
              /\ last.trace[Len(last.trace)].ok
                 \/ last.trace[Len(last.trace)].call = RETRY_ATTEMPTS

\* two failures, two delays, then the third attempt succeeds
C24_Witness ==
    /\ last.op = "writeWithRetry"
    /\ last.pc = "returned"
    /\ Len(last.trace) = 5
    /\ last.trace[2].delay = 1000
    /\ last.trace[4].delay = 2000
    /\ last.ret = S(<<"result", "3">>)

\* the manual, MT and old values of the name (content = FALSE) or of the
\* content of a row are all empty
NoColumnValue(r, content) ==
    IF content
    THEN /\ ~Truthy(ContentOf(r, "manual")) /\ ~Truthy(ContentOf(r, "llm"))
         /\ ~Truthy(ContentOf(r, "old"))
    ELSE /\ ~Truthy(NameOf(r, "manual")) /\ ~Truthy(NameOf(r, "llm"))
         /\ ~Truthy(NameOf(r, "old"))

\* the key of the name or of the content in a language entry
EntryKey(content) == IF content THEN Str(ContentField(run.dataType)) ELSE Str("name")

\* C27: an existing translation is never blanked: when the manual, MT and old
\* values of a field are all empty and old_json holds a non-empty value for
\* the field under the target language, the target-language entry that
\* buildUpdatedJSON returns keeps that value, whatever the language column of
\* the row records.
C27_TranslationNotBlanked ==
    last.op = "build" /\ last.language = run.language =>
        \A content \in BOOLEAN :
            NoColumnValue(BuiltRow, content)
            /\ Truthy(Get(BuildOldEntry, EntryKey(content)))
            => Get(BuildEntry, EntryKey(content)) = Get(BuildOldEntry, EntryKey(content))

----------------------------------------------------------------------------
(* SpecWorkflow claims *)

\* the message handleTranslationError shows for a sheet without data rows
NoDataRowsError == "Invalid sheet structure: Sheet contains no data rows"

\* C21: an empty row set is reported as a zero-progress result with all-zero
\* statistics and never as a thrown error: parseRows and translateRows return
\* no results and zero counts, and the workflow, run on a sheet that loaded
\* without data rows, does not end in the error display.
C21_EmptyInputNotThrown ==
    (calls > 0 /\ app.sheet = <<>> /\ app.pc # "load" /\ ~app.cancelled
     /\ app.display \notin {"AUTH_REQUIRED", "SHEETS_ACCESS_DENIED"}) =>
        /\ data = <<>>
        /\ errors = <<>>
        /\ statistics = ZeroStatistics(0)
        /\ translateRows(data, run.dataType, <<>>).results = <<>>
        /\ translateRows(data, run.dataType, <<>>).statistics
               = [total |-> 0, translated |-> 0, skipped |-> 0, failed |-> 0]
        /\ app.display # NoDataRowsError

\* the 1-based position, among the data rows of the sheet, of the row whose
\* id cell holds id
SheetPosition(id) == CHOOSE i \in 1..Len(app.sheet) : app.sheet[i][COL_id + 1] = id

\* C23: in the pipeline parseRows -> translateRows -> writeLLMTranslations and
\* parseRows -> mergeTranslations -> buildBatchJSON -> writeJSONResults, what
\* is produced for the data row at 0-based position i is written to sheet row
\* i + 2: every write of the run targets, for its row, the row number that is
\* the row's position below the header.
C23_WrittenToOwnRow ==
    \A w \in 1..Len(app.writes) :
        \A k \in 1..Len(app.writes[w].targets) :
            app.writes[w].targets[k].rowNumber
                = Num((SheetPosition(app.writes[w].targets[k].id) - 1) + 2)

\* C28: once the user has confirmed a cancel during a running translation, the
\* run issues no further spreadsheet write (no write of writeLLMTranslations
\* or writeJSONResults is made after the cancel) and no success result is
\* displayed for the cancelled run.
C28_CancelStopsRun ==
    /\ \A w \in 1..Len(app.writes) : ~app.writes[w].cancelled
    /\ app.cancelled => app.pc # "results" /\ app.display # "results"

\* the steps whose completion is among the first k reports of the run
CompletedBy(k) ==
    {app.reported[j].step : j \in {i \in 1..k : app.reported[i].event = "complete"}}

\* C30: in every run of the workflow, also one started after an earlier run of
\* the session, the overall progress reported to the tracker is within 0..100,
\* is 0 at the first report (step 0 starting), never decreases from one report
\* to the next, and is 100 exactly at the reports made when all seven steps
\* have been completed.
C30_ProgressOfRun ==
    /\ \A k \in 1..Len(app.reported) : app.reported[k].value \in 0..100
    /\ app.reported # <<>> => app.reported[1].value = 0
    /\ \A k \in 1..(Len(app.reported) - 1) :
          app.reported[k].value <= app.reported[k + 1].value
    /\ \A k \in 1..Len(app.reported) :
          app.reported[k].value = 100 <=> CompletedBy(k) = 0..(Len(Weights) - 1)

====
